---- MODULE Spec2Model ----
(***************************************************************************)
(* A model of the radar pipeline of beagle-challenge: the GRIB2 byte       *)
(* readers, the section parser, the grid and packing decoders              *)
(* (backend/src/grib2Parser.js).                                           *)
(*                                                                         *)
(* The parser is a set of pure functions of a byte buffer.  Each is an     *)
(* operator here, computed as the JavaScript computes it: `<<`, `|` and    *)
(* `&` act on 32-bit two's-complement integers, an out-of-range buffer     *)
(* index reads `undefined`, and `x | undefined` is `x | 0`.                *)
(* A specification draws the inputs in its Init and applies the function   *)
(* in its actions.                                                         *)
(*                                                                         *)
(* The servers (backend/src/server.js, with and without the result cache)  *)
(* are state machines over the cache, the clock, the upstream and the      *)
(* requests in flight; every await of a handler is a step of its own.      *)
(***************************************************************************)
EXTENDS Integers, Sequences, FiniteSets, TLC

VARIABLES
    buffer,   \* the bytes handed to the function under test
    input,    \* its other arguments, and how the buffer was built
    op,       \* "none" before the call, then the name of the function applied
    result,   \* what the call returned (or the error it threw)
    radarCache,  \* the server's cache entry
    now,         \* Date.now(), in milliseconds
    upstream,    \* the number of the latest product the upstream holds
    requests     \* the requests: where each handler stands, what it holds

vars == <<buffer, input, op, result, radarCache, now, upstream, requests>>

\* null (and, for fetchedAt, any falsy time).
Null == 0

\* let radarCache = { image: null, metadata: null, timestamp: null,
\* fetchedAt: null }
emptyCache ==
    [image |-> Null, metadata |-> Null, timestamp |-> Null, fetchedAt |-> Null]

\* No server runs while a function of the pipeline is applied on its own.
ServerIdle ==
    /\ radarCache = emptyCache
    /\ now = 0
    /\ upstream = 0
    /\ requests = <<>>

(***************************************************************************)
(* JavaScript numbers, as far as the parser uses them.                     *)
(***************************************************************************)

\* buffer[i] for an index outside the buffer: `undefined`.  Only a byte read
\* (0..255) can be undefined, so a negative number stands for it.
Undefined == -1

MaxInt32 == 2147483647
MinInt32 == -MaxInt32 - 1

RECURSIVE Pow2(_)
Pow2(k) == IF k = 0 THEN 1 ELSE 2 * Pow2(k - 1)

\* A byte read as the operand of a bitwise operator: undefined becomes 0.
ToInt32(byte) == IF byte = Undefined THEN 0 ELSE byte

\* The low 31 bits and the sign bit of a 32-bit two's-complement integer.
Low31(x) == IF x < 0 THEN (x + MaxInt32) + 1 ELSE x
SignBit(x) == IF x < 0 THEN 1 ELSE 0
FromBits(sign, low) == IF sign = 1 THEN (low - MaxInt32) - 1 ELSE low

RECURSIVE NatAnd(_, _)
NatAnd(a, b) ==
    IF a = 0 \/ b = 0 THEN 0
    ELSE (a % 2) * (b % 2) + 2 * NatAnd(a \div 2, b \div 2)

RECURSIVE NatOr(_, _)
NatOr(a, b) ==
    IF a = 0 THEN b
    ELSE IF b = 0 THEN a
    ELSE (IF a % 2 = 1 \/ b % 2 = 1 THEN 1 ELSE 0) + 2 * NatOr(a \div 2, b \div 2)

\* a & b
And32(x, y) ==
    FromBits(SignBit(x) * SignBit(y), NatAnd(Low31(x), Low31(y)))

\* a | b
Or32(x, y) ==
    FromBits(IF SignBit(x) = 1 \/ SignBit(y) = 1 THEN 1 ELSE 0,
             NatOr(Low31(x), Low31(y)))

\* a << k: the shift count is taken modulo 32, the bits shifted past bit 31
\* are lost and bit 31 of what remains is the sign.
Shl32(x, k) ==
    LET s == k % 32
    IN  IF s = 0 THEN x
        ELSE LET low == Low31(x) % Pow2(31 - s)
             IN  FromBits((Low31(x) \div Pow2(31 - s)) % 2,
                          IF low = 0 THEN 0 ELSE low * Pow2(s))

\* a >> k for a byte a
Shr(a, k) == a \div Pow2(k)

\* ToInt32(x - 1): the difference is computed as a double and then wrapped,
\* so ToInt32(-2^31 - 1) is 2^31 - 1.
ToInt32Minus1(x) == IF x = MinInt32 THEN MaxInt32 ELSE x - 1

(***************************************************************************)
(* Byte Reader                                                             *)
(***************************************************************************)

\* buffer[i], zero-based
at(buf, i) == IF i >= 0 /\ i < Len(buf) THEN buf[i + 1] ELSE Undefined

RECURSIVE readUintLoop(_, _, _, _, _)
readUintLoop(buf, offset, bytes, i, value) ==
    IF i < bytes
        THEN readUintLoop(buf, offset, bytes, i + 1,
                          Or32(Shl32(value, 8), ToInt32(at(buf, offset + i))))
        ELSE value

readUint(buf, offset, bytes) == readUintLoop(buf, offset, bytes, 0, 0)

\* The reading the format does not use: two's complement, as a built-in
\* signed big-endian reader would give.
readInt_twosComplement(buf, offset, bytes) ==
    LET value == readUint(buf, offset, bytes)
        signBit == Shl32(1, bytes * 8 - 1)
    IN  IF And32(value, signBit) # 0 /\ bytes < 4
            THEN value - Pow2(8 * bytes)
            ELSE value

readInt(buf, offset, bytes) ==
    LET value == readUint(buf, offset, bytes)
        signBit == Shl32(1, bytes * 8 - 1)
    IN  IF And32(value, signBit) # 0
            THEN -And32(value, ToInt32Minus1(signBit))
            ELSE value

(***************************************************************************)
(* Inputs of the byte reader                                               *)
(***************************************************************************)

\* The byte values the checks draw from: both sides of the sign bit.
ByteVals == {0, 1, 128, 255}

\* The reader is applied to every buffer of this many bytes.
ReaderBufLen == 5

ReaderBuffers == [1..ReaderBufLen -> ByteVals]

InitReader ==
    /\ buffer \in ReaderBuffers
    /\ input \in [offset : {0, 1}]
    /\ op = "none"
    /\ result = Undefined
    /\ ServerIdle

ReadUintCall ==
    \E n \in 1..8 :
        /\ op = "none"
        /\ input.offset + n <= Len(buffer)
        /\ op' = "readUint"
        /\ input' = [offset |-> input.offset, bytes |-> n]
        /\ result' = readUint(buffer, input.offset, n)
        /\ UNCHANGED <<buffer, radarCache, now, upstream, requests>>

ReadIntCall ==
    \E n \in {1, 2, 4} :
        /\ op = "none"
        /\ input.offset + n <= Len(buffer)
        /\ op' = "readInt"
        /\ input' = [offset |-> input.offset, bytes |-> n]
        /\ result' = readInt(buffer, input.offset, n)
        /\ UNCHANGED <<buffer, radarCache, now, upstream, requests>>

NextReader == ReadUintCall \/ ReadIntCall

SpecReader == InitReader /\ [][NextReader]_vars

\* The bytes a call read, first byte first.
BytesRead == [i \in 1..input.bytes |-> buffer[input.offset + i]]

\* The value of a byte sequence read most significant byte first.
RECURSIVE BigEndian(_)
BigEndian(bs) ==
    IF bs = <<>> THEN 0
    ELSE 256 * BigEndian(SubSeq(bs, 1, Len(bs) - 1)) + bs[Len(bs)]

\* The n least significant base-256 digits of a natural number, most
\* significant first, and what is left of the number above them.
RECURSIVE Digits256(_, _)
Digits256(v, n) ==
    IF n = 0 THEN <<>> ELSE Append(Digits256(v \div 256, n - 1), v % 256)

RECURSIVE Above256(_, _)
Above256(v, n) == IF n = 0 THEN v ELSE Above256(v \div 256, n - 1)

\* The GRIB2 sign-magnitude reading of a byte sequence: the high bit of the
\* first byte is the sign, the remaining 8n-1 bits are the magnitude.
SignMagnitude(bs) ==
    LET magnitude == BigEndian(<<bs[1] % 128>> \o Tail(bs))
    IN  IF bs[1] >= 128 THEN -magnitude ELSE magnitude

\* C1: readInt(buffer, offset, n) is the GRIB2 sign-magnitude value of the n
\* bytes for n in {1, 2, 4}: the unsigned value when the high bit of the first
\* byte is clear, minus the value of the remaining 8n-1 bits when it is set
\* (so 80 00 00 01 reads -1, never the two's-complement value).
C1_ReadIntSignMagnitude ==
    op = "readInt" => result = SignMagnitude(BytesRead)

\* C1 witness: a 4-byte read whose sign bit is set and whose magnitude is 1.
C1_Witness ==
    /\ op = "readInt"
    /\ input.bytes = 4
    /\ BytesRead = <<128, 0, 0, 1>>
    /\ result = -1

\* C2: readUint(buffer, offset, n) is the non-negative integer whose n
\* base-256 digits, most significant first, are the n bytes read, for every n
\* in 1..8; it is never negative and never truncated.
C2_ReadUintUnsigned ==
    op = "readUint" =>
        /\ result >= 0
        /\ Above256(result, input.bytes) = 0
        /\ Digits256(result, input.bytes) = BytesRead

(***************************************************************************)
(* Data-representation unpackers                                           *)
(*                                                                         *)
(* A field cell is kept as the terms of the arithmetic that produced it:   *)
(* the float (R + X * 2^E) * 10^(-D) is determined by R, X, E and D, and   *)
(* equal terms give equal floats.                                          *)
(***************************************************************************)

\* values[i] = (referenceValue + packedValue * binaryFactor) * decimalFactor
scaleValue(referenceValue, packedValue, binaryScaleFactor, decimalScaleFactor) ==
    [kind |-> "scaled", ref |-> referenceValue, packed |-> packedValue,
     binaryScale |-> binaryScaleFactor, decimalScale |-> decimalScaleFactor]

\* values.fill(referenceValue * decimalFactor)
fillValue(referenceValue, decimalScaleFactor) ==
    [kind |-> "fill", ref |-> referenceValue, decimalScale |-> decimalScaleFactor]

\* The sentinel -999.
Missing == [kind |-> "missing"]

\* value * 0.5 - 33 of the run-length unpacker
runValue(value) == [kind |-> "run", value |-> value]

\* A cell of a new Float32Array that was never written: 0.
Zero == [kind |-> "zero"]

Min(a, b) == IF a < b THEN a ELSE b

\* The inner while loop of unpackSimple: one cell's bits, read in pieces that
\* end at a byte boundary.
RECURSIVE unpackBits(_, _, _, _, _)
unpackBits(dataBuffer, bitsRemaining, currentByte, currentBitPos, packedValue) ==
    IF bitsRemaining > 0
        THEN LET bitsToRead == Min(bitsRemaining, 8 - currentBitPos)
                 mask == Shl32(1, bitsToRead) - 1
                 shift == 8 - currentBitPos - bitsToRead
                 bits == And32(Shr(at(dataBuffer, currentByte), shift), mask)
                 next == IF currentByte < Len(dataBuffer)
                             THEN Or32(Shl32(packedValue, bitsToRead), bits)
                             ELSE packedValue
                 pos == currentBitPos + bitsToRead
             IN  unpackBits(dataBuffer, bitsRemaining - bitsToRead,
                            IF pos >= 8 THEN currentByte + 1 ELSE currentByte,
                            IF pos >= 8 THEN 0 ELSE pos,
                            next)
        ELSE packedValue

\* packedValue of cell i (zero-based): bitOffset is i * bitsPerValue.
packedValueAt(dataBuffer, bitsPerValue, i) ==
    LET bitOffset == i * bitsPerValue
    IN  unpackBits(dataBuffer, bitsPerValue, bitOffset \div 8, bitOffset % 8, 0)

unpackSimple(dataBuffer, section5, numPoints) ==
    IF section5.bitsPerValue = 0
        THEN [i \in 1..numPoints |->
                fillValue(section5.referenceValue, section5.decimalScaleFactor)]
        ELSE [i \in 1..numPoints |->
                scaleValue(section5.referenceValue,
                           packedValueAt(dataBuffer, section5.bitsPerValue, i - 1),
                           section5.binaryScaleFactor,
                           section5.decimalScaleFactor)]

\* unpackJpeg2000Fallback: data byte i is X_i; cells past the data are -999.
unpackJpeg2000Fallback(dataBuffer, section5, numPoints) ==
    [i \in 1..numPoints |->
        IF i - 1 < Len(dataBuffer)
            THEN scaleValue(section5.referenceValue, dataBuffer[i],
                            section5.binaryScaleFactor, section5.decimalScaleFactor)
            ELSE Missing]

\* A plausible slip: pos += 1, so the count byte of a pair is read again as
\* the value byte of the next.
RECURSIVE runCell_stepOne(_, _, _, _, _)
runCell_stepOne(dataBuffer, numPoints, pos, i, k) ==
    IF pos < Len(dataBuffer) - 1 /\ i < numPoints
        THEN LET value == dataBuffer[pos + 1]
                 count == dataBuffer[pos + 2]
                 dbz == IF value = 0 THEN Missing ELSE runValue(value)
                 written == Min(count, numPoints - i)
             IN  IF k < i + written
                     THEN dbz
                     ELSE runCell_stepOne(dataBuffer, numPoints, pos + 1, i + written, k)
        ELSE [kind |-> "none"]

\* unpackRunLength: the cell written at index i (zero-based) while consuming
\* the (value, count) pairs from pos on, or "none".
RECURSIVE runCell(_, _, _, _, _)
runCell(dataBuffer, numPoints, pos, i, k) ==
    IF pos < Len(dataBuffer) - 1 /\ i < numPoints
        THEN LET value == dataBuffer[pos + 1]
                 count == dataBuffer[pos + 2]
                 dbz == IF value = 0 THEN Missing ELSE runValue(value)
                 written == Min(count, numPoints - i)
             IN  IF k < i + written
                     THEN dbz
                     ELSE runCell(dataBuffer, numPoints, pos + 2, i + written, k)
        ELSE [kind |-> "none"]

\* A plausible slip: the inner loop runs to count without the test
\* i < numPoints.
RECURSIVE runLoop_noClamp(_, _, _, _)
runLoop_noClamp(dataBuffer, numPoints, pos, i) ==
    IF pos < Len(dataBuffer) - 1 /\ i < numPoints
        THEN runLoop_noClamp(dataBuffer, numPoints, pos + 2, i + dataBuffer[pos + 2])
        ELSE [pos |-> pos, i |-> i]

\* unpackRunLength: pos and i when the while loop is left, entered with pos
\* and i.  The cells written are those of the indices below i.
RECURSIVE runLoop(_, _, _, _)
runLoop(dataBuffer, numPoints, pos, i) ==
    IF pos < Len(dataBuffer) - 1 /\ i < numPoints
        THEN runLoop(dataBuffer, numPoints, pos + 2,
                     i + Min(dataBuffer[pos + 2], numPoints - i))
        ELSE [pos |-> pos, i |-> i]

unpackRunLength(dataBuffer, section5, numPoints) ==
    [k \in 1..numPoints |->
        LET cell == runCell(dataBuffer, numPoints, 0, 0, k - 1)
        IN  IF cell.kind = "none" THEN Missing ELSE cell]

\* unpackPngFallback: the bytes after an 8-byte header are the X_i.
unpackPngFallback(dataBuffer, section5, numPoints) ==
    [i \in 1..numPoints |->
        IF 8 + (i - 1) < Len(dataBuffer)
            THEN scaleValue(section5.referenceValue, dataBuffer[8 + i],
                            section5.binaryScaleFactor, section5.decimalScaleFactor)
            ELSE Missing]

\* The PNG signature.
PngSignature == <<137, 80, 78, 71, 13, 10, 26, 10>>

\* sharp(dataBuffer).raw().toBuffer(): the decoder is a library outside the
\* repository.  It is a fixed function of the bytes, giving either the raw
\* pixel bytes and the channel count, or a failure.  Here an image is the
\* PNG signature, one byte holding the channel count (1..4) and the raw
\* pixel bytes; everything else fails to decode.
sharpDecode(dataBuffer) ==
    IF /\ Len(dataBuffer) >= 9
       /\ SubSeq(dataBuffer, 1, 8) = PngSignature
       /\ dataBuffer[9] \in 1..4
        THEN [ok |-> TRUE, channels |-> dataBuffer[9],
              data |-> SubSeq(dataBuffer, 10, Len(dataBuffer))]
        ELSE [ok |-> FALSE]

\* rawValue < -30 ? -999 : rawValue, kept as the terms of rawValue.
clampedValue(referenceValue, packedValue, binaryScaleFactor, decimalScaleFactor) ==
    [kind |-> "scaledOrMissing", ref |-> referenceValue, packed |-> packedValue,
     binaryScale |-> binaryScaleFactor, decimalScale |-> decimalScaleFactor]

\* A plausible slip: the packed value 0 is not taken for a missing cell.
pngCell_noZeroRule(section5, packedValue) ==
    clampedValue(section5.referenceValue, packedValue,
                 section5.binaryScaleFactor, section5.decimalScaleFactor)

\* The rule for missing cells of unpackPng.
pngCell(section5, packedValue) ==
    IF packedValue = 0
        THEN Missing
        ELSE clampedValue(section5.referenceValue, packedValue,
                          section5.binaryScaleFactor, section5.decimalScaleFactor)

unpackPng(dataBuffer, section5, numPoints) ==
    LET image == sharpDecode(dataBuffer)
    IN  IF ~image.ok
            THEN unpackPngFallback(dataBuffer, section5, numPoints)
            ELSE LET channels == image.channels
                     data == image.data
                     px(j) == IF j < Len(data) THEN data[j + 1] ELSE 0
                 IN  [i \in 1..numPoints |->
                        IF (i - 1) * channels < Len(data)
                            THEN pngCell(section5,
                                    IF section5.bitsPerValue <= 8
                                        THEN data[(i - 1) * channels + 1]
                                    ELSE IF section5.bitsPerValue <= 16 /\ channels >= 2
                                        THEN Or32(Shl32(data[(i - 1) * channels + 1], 8),
                                                  px((i - 1) * channels + 1))
                                    ELSE data[(i - 1) * channels + 1])
                            \* the second loop starts at data.length / channels
                            \* and writes nothing when that is not an integer
                            ELSE IF Len(data) % channels = 0 THEN Missing ELSE Zero]

(***************************************************************************)
(* Section parsers                                                         *)
(*                                                                         *)
(* A thrown Error is the record [err |-> kind, ...]; a section that parsed *)
(* has err = "none".                                                       *)
(***************************************************************************)

\* buffer.slice(start, end) of a Node Buffer
slice(buf, start, end) ==
    LET clamp(i) == IF i < 0 THEN (IF Len(buf) + i < 0 THEN 0 ELSE Len(buf) + i)
                    ELSE Min(i, Len(buf))
        s == clamp(start)
        e == clamp(end)
    IN  IF e <= s THEN <<>> ELSE SubSeq(buf, s + 1, e)

\* buf.toString("ascii"): Node clears the high bit of every byte it decodes.
toStringAscii(buf) == [i \in 1..Len(buf) |-> buf[i] % 128]

\* The characters "GRIB".
GRIB == <<71, 82, 73, 66>>

\* readFloat32: the binary32 is kept as its four bytes.  A view that does not
\* fit in the buffer is a RangeError.
readFloat32(buf, offset) ==
    IF offset >= 0 /\ offset + 4 <= Len(buf)
        THEN SubSeq(buf, offset + 1, offset + 4)
        ELSE <<>>

\* Number(buffer.readBigUInt64BE(8)), as a number when it is below 2^31 and
\* as the eight bytes otherwise.
readTotalLength(buf) ==
    LET bytes == SubSeq(buf, 9, 16)
    IN  IF SubSeq(bytes, 1, 4) = <<0, 0, 0, 0>> /\ bytes[5] < 128
            THEN readUint(buf, 12, 4)
            ELSE bytes

\* A plausible slip: the edition is tested before the magic number.
parseSection0_editionFirst(buf) ==
    IF at(buf, 7) # 2
        THEN [err |-> "UnsupportedEdition", edition |-> at(buf, 7)]
    ELSE IF toStringAscii(slice(buf, 0, 4)) # GRIB
        THEN [err |-> "InvalidMagic"]
    ELSE IF Len(buf) < 16
        THEN [err |-> "RangeError"]
    ELSE [err |-> "none", discipline |-> at(buf, 6), edition |-> at(buf, 7),
          totalLength |-> readTotalLength(buf)]

parseSection0(buf) ==
    IF toStringAscii(slice(buf, 0, 4)) # GRIB
        THEN [err |-> "InvalidMagic"]
    ELSE IF at(buf, 7) # 2
        THEN [err |-> "UnsupportedEdition", edition |-> at(buf, 7)]
    ELSE IF Len(buf) < 16
        THEN [err |-> "RangeError"]
    ELSE [err |-> "none", discipline |-> at(buf, 6), edition |-> at(buf, 7),
          totalLength |-> readTotalLength(buf)]

parseSection1(buf, offset) ==
    LET length == readUint(buf, offset, 4)
        sectionNum == at(buf, offset + 4)
    IN  IF sectionNum # 1
            THEN [err |-> "ExpectedSection", expected |-> 1, got |-> sectionNum]
            ELSE [err |-> "none",
                  length |-> length,
                  centerId |-> readUint(buf, offset + 5, 2),
                  subCenterId |-> readUint(buf, offset + 7, 2),
                  \* new Date(Date.UTC(year, month - 1, day, hour, minute, second))
                  timestamp |-> <<readUint(buf, offset + 12, 2),
                                  at(buf, offset + 14), at(buf, offset + 15),
                                  at(buf, offset + 16), at(buf, offset + 17),
                                  at(buf, offset + 18)>>]

\* An angle is the fraction num / den of a degree.
angle(num, den) == [num |-> num, den |-> den]

\* lon > 180
over180(lon) ==
    IF lon.den > 0 THEN lon.num > 180 * lon.den ELSE lon.num < 180 * lon.den

\* if (lon > 180) lon -= 360
wrapLongitude(lon) ==
    IF over180(lon) THEN angle(lon.num - 360 * lon.den, lon.den) ELSE lon

\* a < b for two angles over the same divisor
angleLess(a, b) == IF a.den > 0 THEN a.num < b.num ELSE a.num > b.num

angleMin(a, b) == IF angleLess(b, a) THEN b ELSE a
angleMax(a, b) == IF angleLess(a, b) THEN b ELSE a

\* The divisor 1e6.
Million == 1000000

parseGridTemplate0(buf, offset, numPoints) ==
    LET nx == readUint(buf, offset + 16, 4)
        ny == readUint(buf, offset + 20, 4)
        basicAngle == readUint(buf, offset + 24, 4)
        subdivisions == readUint(buf, offset + 28, 4)
        angleDivisor == IF basicAngle = 0 \/ subdivisions = 0
                            THEN Million
                            ELSE basicAngle * subdivisions
        lat1 == angle(readInt(buf, offset + 32, 4), angleDivisor)
        lon1 == wrapLongitude(angle(readInt(buf, offset + 36, 4), angleDivisor))
        lat2 == angle(readInt(buf, offset + 41, 4), angleDivisor)
        lon2 == wrapLongitude(angle(readInt(buf, offset + 45, 4), angleDivisor))
    IN  [numPoints |-> numPoints,
         templateNum |-> 0,
         width |-> nx,
         height |-> ny,
         lat1 |-> lat1, lon1 |-> lon1, lat2 |-> lat2, lon2 |-> lon2,
         dx |-> angle(readUint(buf, offset + 49, 4), angleDivisor),
         dy |-> angle(readUint(buf, offset + 53, 4), angleDivisor),
         scanningMode |-> at(buf, offset + 57),
         bounds |-> [west |-> angleMin(lon1, lon2),
                     east |-> angleMax(lon1, lon2),
                     south |-> angleMin(lat1, lat2),
                     north |-> angleMax(lat1, lat2)]]

parseGridTemplate30(buf, offset, numPoints) ==
    [numPoints |-> numPoints,
     templateNum |-> 30,
     width |-> readUint(buf, offset + 16, 4),
     height |-> readUint(buf, offset + 20, 4),
     lat1 |-> angle(readInt(buf, offset + 24, 4), Million),
     lon1 |-> wrapLongitude(angle(readInt(buf, offset + 28, 4), Million)),
     bounds |-> [west |-> angle(-130, 1), east |-> angle(-60, 1),
                 south |-> angle(20, 1), north |-> angle(55, 1)]]

\* { length, ...gridInfo }
withLength(length, info) ==
    [k \in DOMAIN info \cup {"length", "err"} |->
        IF k = "length" THEN length ELSE IF k = "err" THEN "none" ELSE info[k]]

parseSection3(buf, offset) ==
    LET length == readUint(buf, offset, 4)
        sectionNum == at(buf, offset + 4)
        numPoints == readUint(buf, offset + 6, 4)
        templateNum == readUint(buf, offset + 12, 2)
    IN  IF sectionNum # 3
            THEN [err |-> "ExpectedSection", expected |-> 3, got |-> sectionNum]
        ELSE IF templateNum = 0
            THEN withLength(length, parseGridTemplate0(buf, offset + 14, numPoints))
        ELSE IF templateNum = 30
            THEN withLength(length, parseGridTemplate30(buf, offset + 14, numPoints))
        ELSE withLength(length, [numPoints |-> numPoints, templateNum |-> templateNum])

parseSection5(buf, offset) ==
    LET length == readUint(buf, offset, 4)
        sectionNum == at(buf, offset + 4)
        numDataPoints == readUint(buf, offset + 5, 4)
        templateNum == readUint(buf, offset + 9, 2)
        packingInfo == [numDataPoints |-> numDataPoints, templateNum |-> templateNum]
        scaling == [referenceValue |-> readFloat32(buf, offset + 11),
                    binaryScaleFactor |-> readInt(buf, offset + 15, 2),
                    decimalScaleFactor |-> readInt(buf, offset + 17, 2),
                    bitsPerValue |-> at(buf, offset + 19)]
    IN  IF sectionNum # 5
            THEN [err |-> "ExpectedSection", expected |-> 5, got |-> sectionNum]
        ELSE IF templateNum \in {0, 40, 41} /\ scaling.referenceValue = <<>>
            THEN [err |-> "RangeError"]
        ELSE IF templateNum = 0
            THEN withLength(length, packingInfo @@ scaling)
        ELSE IF templateNum = 40
            THEN withLength(length,
                    packingInfo @@ scaling @@
                    [typeOfOriginalValues |-> at(buf, offset + 20),
                     typeOfCompression |-> at(buf, offset + 21),
                     targetCompressionRatio |-> at(buf, offset + 22)])
        ELSE IF templateNum = 41
            THEN withLength(length,
                    packingInfo @@ scaling @@
                    [typeOfOriginalValues |-> at(buf, offset + 20)])
        ELSE IF templateNum = 200
            THEN withLength(length,
                    packingInfo @@ [typeOfOriginalValues |-> at(buf, offset + 11)])
        ELSE withLength(length, packingInfo)

\* A plausible slip: no final else, so an unknown template is unpacked as
\* run-length data instead of being refused.
parseSection7_noReject(buf, offset, section5, gridInfo) ==
    LET length == readUint(buf, offset, 4)
        sectionNum == at(buf, offset + 4)
        dataBuffer == slice(buf, offset + 5, offset + 5 + (length - 5))
        numPoints == gridInfo.numPoints
    IN  IF sectionNum # 7
            THEN [err |-> "ExpectedSection", expected |-> 7, got |-> sectionNum]
        ELSE IF numPoints < 0
            THEN [err |-> "RangeError"]
        ELSE IF section5.templateNum = 0
            THEN [err |-> "none", length |-> length,
                  values |-> unpackSimple(dataBuffer, section5, numPoints)]
        ELSE IF section5.templateNum = 40
            THEN [err |-> "none", length |-> length,
                  values |-> unpackJpeg2000Fallback(dataBuffer, section5, numPoints)]
        ELSE IF section5.templateNum = 41
            THEN [err |-> "none", length |-> length,
                  values |-> unpackPng(dataBuffer, section5, numPoints)]
        ELSE [err |-> "none", length |-> length,
              values |-> unpackRunLength(dataBuffer, section5, numPoints)]

parseSection7(buf, offset, section5, gridInfo) ==
    LET length == readUint(buf, offset, 4)
        sectionNum == at(buf, offset + 4)
        dataBuffer == slice(buf, offset + 5, offset + 5 + (length - 5))
        numPoints == gridInfo.numPoints
    IN  IF sectionNum # 7
            THEN [err |-> "ExpectedSection", expected |-> 7, got |-> sectionNum]
        ELSE IF section5.templateNum \notin {0, 40, 41, 200}
            THEN [err |-> "UnsupportedPacking", template |-> section5.templateNum]
        \* new Float32Array(numPoints)
        ELSE IF numPoints < 0
            THEN [err |-> "RangeError"]
        ELSE IF section5.templateNum = 0
            THEN [err |-> "none", length |-> length,
                  values |-> unpackSimple(dataBuffer, section5, numPoints)]
        ELSE IF section5.templateNum = 40
            THEN [err |-> "none", length |-> length,
                  values |-> unpackJpeg2000Fallback(dataBuffer, section5, numPoints)]
        ELSE IF section5.templateNum = 41
            THEN [err |-> "none", length |-> length,
                  values |-> unpackPng(dataBuffer, section5, numPoints)]
        ELSE [err |-> "none", length |-> length,
              values |-> unpackRunLength(dataBuffer, section5, numPoints)]

(***************************************************************************)
(* The section walk                                                        *)
(***************************************************************************)

\* offset += length.  The sum is a double in the source; here a sum past the
\* largest int32 stays there, which is past the end of every buffer.
advance(offset, length) ==
    IF length > 0 /\ offset > MaxInt32 - length THEN MaxInt32 ELSE offset + length

\* A plausible slip: the scan stops at section 6 as it does at section 8.
findSectionStep_stopAt6(buf, offset, sectionNum) ==
    IF ~(offset < Len(buf) - 4)
        THEN [kind |-> "return", value |-> -1]
        ELSE LET length == readUint(buf, offset, 4)
                 section == at(buf, offset + 4)
             IN  IF section = sectionNum
                     THEN [kind |-> "return", value |-> offset]
                 ELSE IF length = 0 \/ section = 6 \/ section > 6
                     THEN [kind |-> "return", value |-> -1]
                 ELSE [kind |-> "continue", offset |-> advance(offset, length)]

\* One pass through the loop of findSection, entered with `offset`:
\* it returns an offset, returns -1, or goes round again with a new offset.
findSectionStep(buf, offset, sectionNum) ==
    IF ~(offset < Len(buf) - 4)
        THEN [kind |-> "return", value |-> -1]
        ELSE LET length == readUint(buf, offset, 4)
                 section == at(buf, offset + 4)
             IN  IF section = sectionNum
                     THEN [kind |-> "return", value |-> offset]
                 ELSE IF length = 0 \/ section = 8 \/ section > 8
                     THEN [kind |-> "return", value |-> -1]
                 ELSE [kind |-> "continue", offset |-> advance(offset, length)]

\* The loop of findSection.  The loop's only state is the offset, so a pass
\* entered with an offset seen before repeats for ever: the call never
\* returns.
RECURSIVE findSectionLoop(_, _, _, _)
findSectionLoop(buf, offset, sectionNum, seen) ==
    IF offset \in seen
        THEN [returns |-> FALSE]
        ELSE LET step == findSectionStep(buf, offset, sectionNum)
             IN  IF step.kind = "return"
                     THEN [returns |-> TRUE, value |-> step.value]
                     ELSE findSectionLoop(buf, step.offset, sectionNum,
                                          seen \cup {offset})

findSection(buf, startOffset, sectionNum) ==
    findSectionLoop(buf, startOffset, sectionNum, {})

\* The properties of a record that are defined.
pick(rec, keys) == [k \in (keys \cap DOMAIN rec) |-> rec[k]]

\* What parseGrib2 gives back:
\*   [status |-> "ok", ...]     the returned object
\*   [status |-> "error", ...]  the Error thrown, and the sections parsed before
\*   [status |-> "hangs", ...]  a findSection call never returns
thrown(error, parsed) == [status |-> "error", error |-> error, parsed |-> parsed]
hangs(parsed) == [status |-> "hangs", parsed |-> parsed]

missingSection(n) == [err |-> "MissingSection", section |-> n]

\* Date.prototype.toISOString throws a RangeError on an invalid date, which
\* is what Date.UTC gives when a field was read outside the buffer.
validDate(timestamp) == \A i \in 1..Len(timestamp) : timestamp[i] # Undefined

\* parseGrib2 from the located section 5 on.
parseFrom5(buf, section1, section3, section5Offset) ==
    LET section5 == parseSection5(buf, section5Offset)
    IN  IF section5.err # "none" THEN thrown(section5, <<0, 1, 3>>)
        ELSE
        LET found7 == findSection(buf, advance(section5Offset, section5.length), 7)
        IN  IF ~found7.returns THEN hangs(<<0, 1, 3, 5>>)
            ELSE IF found7.value = -1 THEN thrown(missingSection(7), <<0, 1, 3, 5>>)
            ELSE
            LET section7 == parseSection7(buf, found7.value, section5, section3)
            IN  IF section7.err # "none" THEN thrown(section7, <<0, 1, 3, 5>>)
                ELSE [status |-> "ok",
                      parsed |-> <<0, 1, 3, 5, 7>>,
                      timestamp |-> section1.timestamp,
                      grid |-> pick(section3,
                                    {"width", "height", "bounds", "scanningMode"}),
                      values |-> section7.values]

\* A plausible slip: section 5 is searched from where the search for section 3
\* began, not from the end of section 3.
parseFrom1_search5FromStart(buf, section1) ==
    LET after1 == advance(16, section1.length)
        offset == IF at(buf, after1 + 4) = 2
                      THEN advance(after1, readUint(buf, after1, 4))
                      ELSE after1
        found3 == findSection(buf, offset, 3)
    IN  IF ~found3.returns THEN hangs(<<0, 1>>)
        ELSE IF found3.value = -1 THEN thrown(missingSection(3), <<0, 1>>)
        ELSE
        LET section3 == parseSection3(buf, found3.value)
        IN  IF section3.err # "none" THEN thrown(section3, <<0, 1>>)
            ELSE
            LET found5 == findSection(buf, offset, 5)
            IN  IF ~found5.returns THEN hangs(<<0, 1, 3>>)
                ELSE IF found5.value = -1
                    THEN thrown(missingSection(5), <<0, 1, 3>>)
                ELSE parseFrom5(buf, section1, section3, found5.value)

\* parseGrib2 from the end of section 1 on.
parseFrom1(buf, section1) ==
    LET after1 == advance(16, section1.length)
        offset == IF at(buf, after1 + 4) = 2
                      THEN advance(after1, readUint(buf, after1, 4))
                      ELSE after1
        found3 == findSection(buf, offset, 3)
    IN  IF ~found3.returns THEN hangs(<<0, 1>>)
        ELSE IF found3.value = -1 THEN thrown(missingSection(3), <<0, 1>>)
        ELSE
        LET section3 == parseSection3(buf, found3.value)
        IN  IF section3.err # "none" THEN thrown(section3, <<0, 1>>)
            ELSE
            LET found5 == findSection(buf, advance(found3.value, section3.length), 5)
            IN  IF ~found5.returns THEN hangs(<<0, 1, 3>>)
                ELSE IF found5.value = -1
                    THEN thrown(missingSection(5), <<0, 1, 3>>)
                ELSE parseFrom5(buf, section1, section3, found5.value)

parseGrib2(buf) ==
    LET section0 == parseSection0(buf)
    IN  IF section0.err # "none" THEN thrown(section0, <<>>)
        ELSE
        LET section1 == parseSection1(buf, 16)
        IN  IF section1.err # "none" THEN thrown(section1, <<0>>)
            ELSE IF ~validDate(section1.timestamp)
                THEN thrown([err |-> "RangeError"], <<0>>)
            ELSE parseFrom1(buf, section1)

(***************************************************************************)
(* Inputs of the simple unpacker                                           *)
(***************************************************************************)

\* Data bytes with bits on both sides of every boundary.
PackedBytes == {1, 128, 165}

\* The unpacker is applied to every data section of this many bytes.
UnpackBufLen == 4

\* The largest number of cells asked for.
MaxPoints == 2

\* A binary32 is kept as its four big-endian bytes; these are 0.0.
FloatZero == <<0, 0, 0, 0>>

InitUnpack ==
    /\ buffer \in [1..UnpackBufLen -> PackedBytes]
    /\ input \in [bitsPerValue : 0..32, numPoints : 1..MaxPoints]
    /\ op = "none"
    /\ result = Undefined
    /\ ServerIdle

UnpackSimpleCall ==
    /\ op = "none"
    /\ op' = "unpackSimple"
    /\ result' = unpackSimple(buffer,
                              [referenceValue |-> FloatZero,
                               binaryScaleFactor |-> 0,
                               decimalScaleFactor |-> 0,
                               bitsPerValue |-> input.bitsPerValue],
                              input.numPoints)
    /\ UNCHANGED <<buffer, input, radarCache, now, upstream, requests>>

NextUnpack == UnpackSimpleCall

SpecUnpack == InitUnpack /\ [][NextUnpack]_vars

\* The bits of a byte sequence, most significant bit of byte 0 first.
BitsOf(bs) ==
    [k \in 1..(8 * Len(bs)) |->
        (bs[((k - 1) \div 8) + 1] \div Pow2(7 - ((k - 1) % 8))) % 2]

\* The w least significant binary digits of a natural number, most
\* significant first, and what is left of the number above them.
RECURSIVE Digits2(_, _)
Digits2(v, w) == IF w = 0 THEN <<>> ELSE Append(Digits2(v \div 2, w - 1), v % 2)

RECURSIVE Above2(_, _)
Above2(v, w) == IF w = 0 THEN v ELSE Above2(v \div 2, w - 1)

\* Cell i (zero-based) lies wholly inside the data section.
CellInData(i) == (i + 1) * input.bitsPerValue <= 8 * Len(buffer)

\* X_i is the unsigned value of the w bits at bit offset i*w.
CellIsItsBits(i) ==
    LET w == input.bitsPerValue
        X == result[i + 1].packed
    IN  /\ X >= 0
        /\ Above2(X, w) = 0
        /\ Digits2(X, w) = SubSeq(BitsOf(buffer), i * w + 1, i * w + w)

\* C3: in simple packing with bits_per_value w in 1..32, the unpacked integer
\* X_i of every cell is the unsigned value of the w bits that start at bit
\* offset i*w of the data section, assembled most significant bit first, for
\* every w up to and including 32.
C3_SimpleUnpackBits ==
    (op = "unpackSimple" /\ input.bitsPerValue >= 1) =>
        \A i \in 0..(input.numPoints - 1) : CellInData(i) => CellIsItsBits(i)

\* What does hold of unpackSimple: the same for every width up to 31.
UnpackSimpleBitsUpTo31 ==
    (op = "unpackSimple" /\ input.bitsPerValue \in 1..31) =>
        \A i \in 0..(input.numPoints - 1) : CellInData(i) => CellIsItsBits(i)

\* bits_per_value 0 fills every cell with R * 10^(-D).
UnpackSimpleZeroWidth ==
    (op = "unpackSimple" /\ input.bitsPerValue = 0) =>
        \A i \in 1..input.numPoints : result[i] = fillValue(FloatZero, 0)

(***************************************************************************)
(* GRIB2 messages: the byte layout the section parsers read, written out.  *)
(***************************************************************************)

U16(n) == <<n \div 256, n % 256>>
U32(n) == <<(n \div 16777216) % 256, (n \div 65536) % 256, (n \div 256) % 256, n % 256>>

\* A signed value in GRIB2 sign-magnitude, four bytes.
S32(n) ==
    IF n < 0 THEN <<128 + (((-n) \div 16777216) % 128)>> \o Tail(U32(-n)) ELSE U32(n)
S16(n) ==
    IF n < 0 THEN <<128 + (((-n) \div 256) % 128), (-n) % 256>> ELSE U16(n)

zeros(n) == [i \in 1..n |-> 0]

RECURSIVE concat(_)
concat(seqs) == IF seqs = <<>> THEN <<>> ELSE Head(seqs) \o concat(Tail(seqs))

\* Section 0: magic, reserved, discipline, edition, total length (8 bytes).
encodeSection0(magic, edition, totalLength) ==
    magic \o <<0, 0, 0, edition>> \o zeros(4) \o U32(totalLength)

\* Section 1: 21 bytes, reference time 2024-01-15T18:42:00Z.
encodeSection1 ==
    U32(21) \o <<1>> \o U16(161) \o U16(0) \o <<2, 1, 3>> \o U16(2024)
            \o <<1, 15, 18, 42, 0>> \o <<0, 1>>

\* The body of grid template 0 (58 bytes, from offset 14 of section 3).
encodeGridTemplate0(nx, ny, basicAngle, subdivisions, lat1, lon1, lat2, lon2, scanningMode) ==
    zeros(16) \o U32(nx) \o U32(ny) \o U32(basicAngle) \o U32(subdivisions)
              \o S32(lat1) \o S32(lon1) \o <<48>> \o S32(lat2) \o S32(lon2)
              \o U32(10000) \o U32(10000) \o <<scanningMode>>

\* The body of grid template 30 (67 bytes).
encodeGridTemplate30(nx, ny, lat1, lon1) ==
    zeros(16) \o U32(nx) \o U32(ny) \o S32(lat1) \o S32(lon1) \o zeros(35)

\* Section 3 of a 2 x 1 grid with corners (40N, 260E) and (39N, 261E).
encodeSection3(templateNum) ==
    LET body == IF templateNum = 0
                    THEN encodeGridTemplate0(2, 1, 0, 0, 40000000, 260000000,
                                             39000000, 261000000, 0)
                ELSE IF templateNum = 30
                    THEN encodeGridTemplate30(2, 1, 40000000, 260000000)
                ELSE zeros(58)
    IN  U32(14 + Len(body)) \o <<3, 0>> \o U32(2) \o <<0, 0>> \o U16(templateNum) \o body

\* Section 5 (23 bytes): R = 0.0, E = 1, D = -1, 8 bits per value.
encodeSection5(templateNum) ==
    U32(23) \o <<5>> \o U32(2) \o U16(templateNum) \o FloatZero \o S16(1) \o S16(-1)
            \o <<8, 0, 0, 0>>

\* The data section that goes with a packing template.
dataFor(templateNum) ==
    IF templateNum = 41 THEN PngSignature \o <<1, 100, 200>>
    ELSE IF templateNum = 200 THEN <<0, 1, 128, 1>>
    ELSE <<30, 7>>

encodeSection7(data) == U32(5 + Len(data)) \o <<7>> \o data

\* A section 2, 4 or 6: length, number, payload.
encodeOther(num, payload) == U32(5 + Len(payload)) \o <<num>> \o payload

\* The end section.
Sevens == <<55, 55, 55, 55>>

encodeSection(sec, gridTemplate, packing) ==
    IF sec.num = 3 THEN encodeSection3(gridTemplate)
    ELSE IF sec.num = 5 THEN encodeSection5(packing)
    ELSE IF sec.num = 7 THEN encodeSection7(dataFor(packing))
    ELSE encodeOther(sec.num, sec.payload)

\* The message a description stands for: sections 0 and 1, the sections of the
\* layout in order, and the end section.
encodeMessage(m) ==
    LET body == encodeSection1
                \o concat([i \in 1..Len(m.layout) |->
                            encodeSection(m.layout[i], m.gridTemplate, m.packing)])
                \o Sevens
    IN  encodeSection0(m.magic, m.edition, 16 + Len(body)) \o body

(***************************************************************************)
(* Inputs of parseGrib2                                                    *)
(***************************************************************************)

\* The most sections a message holds after section 1.
MaxSections == 3

section(num) == [num |-> num, payload |-> <<9>>]

Layouts ==
    UNION {[1..n -> {section(k) : k \in 2..7}] : n \in 0..MaxSections}

\* "GRIB", a near miss, and "GRIB" with the high bit of the first byte set.
Magics == {GRIB, <<71, 82, 73, 67>>, <<199, 82, 73, 66>>}

GridTemplates == {0, 30, 1}
PackingTemplates == {0, 40, 41, 200, 2}

\* Layouts of sections 3, 5 and 7 alone.
RequiredLayouts ==
    UNION {[1..n -> {section(k) : k \in {3, 5, 7}}] : n \in 0..MaxSections}

Complete == <<section(3), section(5), section(7)>>

\* Every header over one complete message; every layout under a good header;
\* every pair of templates under every layout of sections 3, 5 and 7.
Messages ==
    [magic : Magics, edition : {1, 2, 3}, layout : {Complete},
     gridTemplate : {0}, packing : {0}]
    \cup
    [magic : {GRIB}, edition : {2}, layout : Layouts,
     gridTemplate : {0}, packing : {0}]
    \cup
    [magic : {GRIB}, edition : {2}, layout : RequiredLayouts,
     gridTemplate : GridTemplates, packing : PackingTemplates]

InitParse ==
    /\ input \in Messages
    /\ buffer = encodeMessage(input)
    /\ op = "none"
    /\ result = Undefined
    /\ ServerIdle

ParseCall ==
    /\ op = "none"
    /\ op' = "parseGrib2"
    /\ result' = parseGrib2(buffer)
    /\ UNCHANGED <<buffer, input, radarCache, now, upstream, requests>>

NextParse == ParseCall

SpecParse == InitParse /\ [][NextParse]_vars

\* The message has the magic number and the edition the parser wants, byte
\* for byte.
GoodHeader == input.magic = GRIB /\ input.edition = 2

\* The first place at or after `from` where the layout holds section `num`;
\* 0 when there is none.
firstAt(layout, num, from) ==
    LET hits == {i \in from..Len(layout) : layout[i].num = num}
    IN  IF hits = {} THEN 0 ELSE CHOOSE i \in hits : \A j \in hits : i <= j

\* The first of sections 3, 5, 7 that a forward walk over the layout does not
\* meet (5 is looked for after the 3 it met, 7 after the 5); 0 when it meets
\* all three.
firstMissing(layout) ==
    LET i3 == firstAt(layout, 3, 1)
        i5 == IF i3 = 0 THEN 0 ELSE firstAt(layout, 5, i3 + 1)
        i7 == IF i5 = 0 THEN 0 ELSE firstAt(layout, 7, i5 + 1)
    IN  IF i3 = 0 THEN 3 ELSE IF i5 = 0 THEN 5 ELSE IF i7 = 0 THEN 7 ELSE 0

Failed(kind) == result.status = "error" /\ result.error.err = kind

\* C4: parseGrib2 rejects every buffer whose first four bytes are not "GRIB"
\* with the invalid-format error, and every buffer with that magic but an
\* edition byte other than 2 with the unsupported-edition error; the magic is
\* tested first, and in both cases nothing after section 0 is read and no
\* field is produced.
C4_RejectsBadHeader ==
    op = "parseGrib2" =>
        /\ SubSeq(buffer, 1, 4) # GRIB =>
                Failed("InvalidMagic") /\ result.parsed = <<>>
        /\ (SubSeq(buffer, 1, 4) = GRIB /\ buffer[8] # 2) =>
                /\ Failed("UnsupportedEdition")
                /\ result.error.edition = buffer[8]
                /\ result.parsed = <<>>

\* What does hold of the header check: the same for every magic number made
\* of 7-bit bytes.
SevenBitHeaderRejected ==
    (op = "parseGrib2" /\ \A i \in 1..4 : buffer[i] < 128) =>
        /\ SubSeq(buffer, 1, 4) # GRIB =>
                Failed("InvalidMagic") /\ result.parsed = <<>>
        /\ (SubSeq(buffer, 1, 4) = GRIB /\ buffer[8] # 2) =>
                /\ Failed("UnsupportedEdition")
                /\ result.error.edition = buffer[8]
                /\ result.parsed = <<>>

\* C5: for a message with valid sections 0 and 1, parseGrib2 fails with the
\* missing-section error for the first of sections 3, 5, 7 that the forward
\* scan does not find, where 5 is searched only after the end of section 3 and
\* 7 only after the end of section 5; when all three are found it raises no
\* missing-section error.
C5_MissingSectionOrder ==
    (op = "parseGrib2" /\ GoodHeader) =>
        LET n == firstMissing(input.layout)
        IN  IF n = 0
                THEN ~Failed("MissingSection")
                ELSE /\ Failed("MissingSection")
                     /\ result.error.section = n
                     /\ result.parsed = (IF n = 3 THEN <<0, 1>>
                                         ELSE IF n = 5 THEN <<0, 1, 3>>
                                         ELSE <<0, 1, 3, 5>>)

\* C5 witness: a message holding only sections 0, 1, 5, 7 has failed with
\* missing section 3.
C5_Witness ==
    /\ op = "parseGrib2"
    /\ GoodHeader
    /\ input.layout = <<section(5), section(7)>>
    /\ Failed("MissingSection")
    /\ result.error.section = 3

\* The layout with one more section put in after the first p sections.
insertAt(layout, p, sec) ==
    SubSeq(layout, 1, p) \o <<sec>> \o SubSeq(layout, p + 1, Len(layout))

\* Payloads of an inserted section: none, one byte, and bytes that look like
\* the head of a section 3.
Payloads == {<<>>, <<9>>, <<0, 0, 0, 5, 3>>}

\* What parsing gives for the message with the section put in.
parsedWith(p, num, payload) ==
    parseGrib2(encodeMessage(
        [input EXCEPT !.layout = insertAt(input.layout, p, [num |-> num, payload |-> payload])]))

\* C7: inserting one well-formed section numbered 2, 4 or 6, with any payload,
\* between two consecutive sections after section 0 of a message that parses
\* leaves the result unchanged: same timestamp, width, height, bounds,
\* scanning mode and field values.
C7_SectionSkip ==
    (op = "parseGrib2" /\ result.status = "ok") =>
        \A p \in 0..Len(input.layout), num \in {2, 4, 6}, payload \in Payloads :
            parsedWith(p, num, payload) = result

\* C7 witness: a message that parsed, and the same message with a section 4
\* before its section 3 parsed to the same field.
C7_Witness ==
    /\ op = "parseGrib2"
    /\ result.status = "ok"
    /\ input.layout = Complete
    /\ parsedWith(0, 4, <<9>>).status = "ok"
    /\ parsedWith(0, 4, <<9>>).values = result.values

\* C9: a message whose section 3 declares a grid template other than 0 or 30
\* is rejected with an unsupported-grid-template error carrying that number,
\* and no grid with undefined width, height, bounds or scanning mode is ever
\* returned.
C9_UnsupportedGridRejected ==
    op = "parseGrib2" =>
        /\ result.status = "ok" =>
                DOMAIN result.grid = {"width", "height", "bounds", "scanningMode"}
        /\ (GoodHeader /\ firstAt(input.layout, 3, 1) # 0
                       /\ input.gridTemplate \notin {0, 30}) =>
                /\ Failed("UnsupportedGridTemplate")
                /\ result.error.template = input.gridTemplate

\* C10 as stated: a message whose section 5 declares a packing template other
\* than 0, 40, 41, 200 makes parseGrib2 fail with the unsupported-packing
\* error naming that template, and no field is produced; the four templates
\* never produce that error.  (Section 5 is declared where the parser reads
\* it: after a section 3.)
C10_AsStated ==
    (op = "parseGrib2" /\ GoodHeader /\ firstMissing(input.layout) \in {0, 7}) =>
        IF input.packing \in {0, 40, 41, 200}
            THEN ~Failed("UnsupportedPacking")
            ELSE /\ Failed("UnsupportedPacking")
                 /\ result.error.template = input.packing

\* C10, amended: the same of every message in which a section 7 is found
\* after section 5.
C10_UnsupportedPacking ==
    (op = "parseGrib2" /\ GoodHeader /\ firstMissing(input.layout) = 0) =>
        IF input.packing \in {0, 40, 41, 200}
            THEN ~Failed("UnsupportedPacking")
            ELSE /\ Failed("UnsupportedPacking")
                 /\ result.error.template = input.packing
                 /\ "values" \notin DOMAIN result

\* C10 witness: a complete message declaring packing template 2 has been
\* refused with that number.
C10_Witness ==
    /\ op = "parseGrib2"
    /\ GoodHeader
    /\ input.layout = Complete
    /\ input.packing = 2
    /\ Failed("UnsupportedPacking")
    /\ result.error.template = 2

\* ---------------------------------------------------------------------
\* findSection on chains of small sections.

\* The size of every section of a chain: length field, number, payload.
SectionSize == 6

\* The length fields a section may carry: its true length, zero, the length
\* of two sections, 2^32 - 6 and 2^31.
LengthFields ==
    {U32(SectionSize), U32(0), U32(2 * SectionSize),
     <<255, 255, 255, 256 - SectionSize>>, <<128, 0, 0, 0>>}

SectionNumbers == {3, 5, 8}

\* The most sections in a chain.
MaxChain == 3

ChainSections == [length : LengthFields, num : SectionNumbers]

Chains == UNION {[1..n -> ChainSections] : n \in 1..MaxChain}

encodeChain(chain) ==
    concat([i \in 1..Len(chain) |-> chain[i].length \o <<chain[i].num>> \o zeros(SectionSize - 5)])

InitScan ==
    /\ \E chain \in Chains : buffer = encodeChain(chain)
    /\ input \in [start : {0, SectionSize}, target : {5}]
    /\ op = "none"
    /\ result = Undefined
    /\ ServerIdle

FindSectionCall ==
    /\ op = "none"
    /\ op' = "findSection"
    /\ result' = findSection(buffer, input.start, input.target)
    /\ UNCHANGED <<buffer, input, radarCache, now, upstream, requests>>

NextScan == FindSectionCall

SpecScan == InitScan /\ [][NextScan]_vars

\* The forward-scan rule over unsigned 4-byte lengths.  A length that reaches
\* the end of the buffer or beyond (every length of 2^31 or more does) ends
\* the chain.
RECURSIVE ForwardScan(_, _, _)
ForwardScan(buf, offset, target) ==
    IF ~(offset < Len(buf) - 4)
        THEN -1
        ELSE LET field == SubSeq(buf, offset + 1, offset + 4)
                 number == buf[offset + 5]
             IN  IF number = target THEN offset
                 ELSE IF number >= 8 THEN -1
                 ELSE IF field[1] >= 128 THEN -1
                 ELSE IF BigEndian(field) = 0 THEN -1
                 ELSE IF BigEndian(field) >= Len(buf) - offset THEN -1
                 ELSE ForwardScan(buf, offset + BigEndian(field), target)

\* C6: findSection(buffer, start, target) follows the forward-scan rule: it
\* returns the offset of the first section numbered target on the chain of
\* 4-byte lengths from start, and not-found when the chain ends first (a
\* length of 0, a number of 8 or more, or the end of the buffer).
C6_ForwardScanRule ==
    op = "findSection" =>
        /\ result.returns
        /\ result.value = ForwardScan(buffer, input.start, input.target)

\* What does hold of findSection: the forward-scan rule on every chain whose
\* length fields are below 2^31.
ForwardScanBelowTopBit ==
    (op = "findSection" /\ \A i \in 1..Len(buffer) : buffer[i] < 128) =>
        /\ result.returns
        /\ result.value = ForwardScan(buffer, input.start, input.target)

\* C22: findSection terminates for every byte buffer, start offset and target
\* section number, including when a 4-byte length read has its top bit set.
C22_FindSectionTerminates ==
    op = "findSection" => result.returns

\* What does hold: findSection returns on every chain whose length fields are
\* below 2^31, where every pass that goes round again increases the offset.
TerminatesBelowTopBit ==
    (op = "findSection" /\ \A i \in 1..Len(buffer) : buffer[i] < 128) =>
        result.returns

\* ---------------------------------------------------------------------
\* parseGridTemplate0 on encoded corner pairs.

\* Encoded longitudes, in microdegrees: inside [-180, 180], inside (180, 540],
\* above 540 and below -180 degrees.
Longitudes ==
    {0, 180000000, 180000001, 359000000, 540000000, 540000001, 600000000,
     -100000000, -180000000, -200000000}

Latitudes == {-30000000, 40000000}

\* Basic angle and subdivisions: absent (both 0), and 1 / 1000000.
AngleUnits == {<<0, 0>>, <<1, Million>>}

InitGrid ==
    /\ input \in [lat1 : Latitudes, lon1 : Longitudes,
                  lat2 : Latitudes, lon2 : Longitudes, unit : AngleUnits]
    /\ buffer = encodeGridTemplate0(2, 1, input.unit[1], input.unit[2],
                                    input.lat1, input.lon1,
                                    input.lat2, input.lon2, 0)
    /\ op = "none"
    /\ result = Undefined
    /\ ServerIdle

ParseGridTemplate0Call ==
    /\ op = "none"
    /\ op' = "parseGridTemplate0"
    /\ result' = parseGridTemplate0(buffer, 0, 2)
    /\ UNCHANGED <<buffer, input, radarCache, now, upstream, requests>>

NextGrid == ParseGridTemplate0Call

SpecGrid == InitGrid /\ [][NextGrid]_vars

\* An encoded longitude as the claim reports it: minus 360 degrees when it
\* is greater than 180 degrees.
Normalised(lon) ==
    angle(IF lon > 180 * Million THEN lon - 360 * Million ELSE lon, Million)

\* -180 <= west <= east <= 180 and south <= north.
BoundsInRange ==
    /\ -180 * Million <= result.bounds.west.num
    /\ result.bounds.west.num <= result.bounds.east.num
    /\ result.bounds.east.num <= 180 * Million
    /\ result.bounds.south.num <= result.bounds.north.num

\* C8: for grid template 0 and every encoded corner pair, a longitude greater
\* than 180 is reported as the longitude minus 360, and the reported bounds
\* satisfy -180 <= west <= east <= 180 and south <= north.
C8_LongitudeNormalised ==
    op = "parseGridTemplate0" =>
        /\ result.lon1 = Normalised(input.lon1)
        /\ result.lon2 = Normalised(input.lon2)
        /\ BoundsInRange

\* What does hold of the bounds: the range for corner pairs encoded within
\* [-180, 540] degrees.
BoundsInRangeUpTo540 ==
    (op = "parseGridTemplate0"
        /\ \A lon \in {input.lon1, input.lon2} :
                -180 * Million <= lon /\ lon <= 540 * Million) =>
        /\ result.lon1 = Normalised(input.lon1)
        /\ result.lon2 = Normalised(input.lon2)
        /\ BoundsInRange

(***************************************************************************)
(* Field values as numbers                                                 *)
(*                                                                         *)
(* A number is [kind |-> "num", half |-> h], the value h / 2, or           *)
(* [kind |-> "nan"].  Every value the inputs below produce is a small      *)
(* multiple of 0.5, which a Float32Array cell holds exactly.               *)
(***************************************************************************)

Num(h) == [kind |-> "num", half |-> h]
NaN == [kind |-> "nan"]

\* A number outside the multiples of 0.5 the model computes with.
Other == [kind |-> "other"]

\* m * 2^e as a count of halves, when it is one.
RECURSIVE halves(_, _)
halves(m, e) ==
    IF m = 0 THEN Num(0)
    ELSE IF e >= 7 THEN Other
    ELSE IF e >= -1 THEN Num(m * Pow2(e + 1))
    ELSE IF m % 2 = 0 THEN halves(m \div 2, e + 1)
    ELSE Other

\* view.getFloat32(0, false): IEEE 754 single precision, big-endian.
getFloat32(bytes) ==
    IF Len(bytes) # 4 THEN Other
    ELSE
    LET sign == bytes[1] \div 128
        exponent == (bytes[1] % 128) * 2 + bytes[2] \div 128
        mantissa == (bytes[2] % 128) * 65536 + bytes[3] * 256 + bytes[4]
        magnitude == IF exponent = 0 THEN halves(mantissa, -149)
                     ELSE halves(8388608 + mantissa, exponent - 150)
    IN  IF exponent = 255 THEN (IF mantissa = 0 THEN Other ELSE NaN)
        ELSE IF magnitude.kind = "num" /\ sign = 1 THEN Num(-magnitude.half)
        ELSE magnitude

\* (referenceValue + packedValue * 2^E) * 10^(-D)
scaled(referenceValue, packedValue, binaryScaleFactor, decimalScaleFactor) ==
    LET R == getFloat32(referenceValue)
    IN  IF R.kind # "num" THEN R
        ELSE IF binaryScaleFactor \notin -1..4 \/ decimalScaleFactor \notin -2..0
            THEN Other
        ELSE Num((R.half + packedValue * Pow2(binaryScaleFactor + 1))
                    * (IF decimalScaleFactor = 0 THEN 1
                       ELSE IF decimalScaleFactor = -1 THEN 10 ELSE 100))

\* A plausible slip: value - 33 for a run, the factor 0.5 forgotten.
numberOf_noHalf(cell) ==
    IF cell.kind = "missing" THEN Num(-1998)
    ELSE IF cell.kind = "zero" THEN Num(0)
    ELSE IF cell.kind = "run" THEN Num(2 * cell.value - 66)
    ELSE IF cell.kind = "fill" THEN scaled(cell.ref, 0, 0, cell.decimalScale)
    ELSE LET Y == scaled(cell.ref, cell.packed, cell.binaryScale, cell.decimalScale)
         IN  IF cell.kind = "scaledOrMissing" /\ Y.kind = "num" /\ Y.half < -60
                 THEN Num(-1998)
                 ELSE Y

\* The number a cell of the field holds.
numberOf(cell) ==
    IF cell.kind = "missing" THEN Num(-1998)
    ELSE IF cell.kind = "zero" THEN Num(0)
    ELSE IF cell.kind = "run" THEN Num(cell.value - 66)
    ELSE IF cell.kind = "fill" THEN scaled(cell.ref, 0, 0, cell.decimalScale)
    ELSE LET Y == scaled(cell.ref, cell.packed, cell.binaryScale, cell.decimalScale)
         IN  IF cell.kind = "scaledOrMissing" /\ Y.kind = "num" /\ Y.half < -60
                 THEN Num(-1998)
                 ELSE Y

(***************************************************************************)
(* The renderer                                                            *)
(***************************************************************************)

COLOR_SCALE ==
    << [dbz |-> -30, color |-> <<0, 0, 0, 0>>],
       [dbz |-> 0, color |-> <<0, 0, 0, 0>>],
       [dbz |-> 5, color |-> <<4, 68, 94, 160>>],
       [dbz |-> 10, color |-> <<0, 160, 180, 200>>],
       [dbz |-> 15, color |-> <<0, 200, 160, 220>>],
       [dbz |-> 20, color |-> <<0, 230, 0, 240>>],
       [dbz |-> 25, color |-> <<0, 200, 0, 250>>],
       [dbz |-> 30, color |-> <<0, 144, 0, 255>>],
       [dbz |-> 35, color |-> <<255, 255, 0, 255>>],
       [dbz |-> 40, color |-> <<255, 192, 0, 255>>],
       [dbz |-> 45, color |-> <<255, 128, 0, 255>>],
       [dbz |-> 50, color |-> <<255, 0, 0, 255>>],
       [dbz |-> 55, color |-> <<200, 0, 0, 255>>],
       [dbz |-> 60, color |-> <<255, 0, 200, 255>>],
       [dbz |-> 65, color |-> <<160, 0, 255, 255>>],
       [dbz |-> 70, color |-> <<255, 255, 255, 255>>],
       [dbz |-> 75, color |-> <<200, 200, 255, 255>> ] >>

\* The for loop of getColorForDbz from index i (one-based) on: the first
\* index whose stop is at or below h / 2 with the next stop above it, or 0.
RECURSIVE scaleIndex(_, _)
scaleIndex(h, i) ==
    IF i < Len(COLOR_SCALE)
        THEN IF h >= 2 * COLOR_SCALE[i].dbz /\ h < 2 * COLOR_SCALE[i + 1].dbz
                 THEN i
                 ELSE scaleIndex(h, i + 1)
        ELSE 0

\* A plausible slip: Math.floor in place of Math.round.
roundChannel_floor(lower, upper, num, den) ==
    lower + (num * (upper - lower)) \div den

\* Math.round(lower + t * (upper - lower)) with t = num / den, den > 0:
\* the floor of the sum plus one half.
roundChannel(lower, upper, num, den) ==
    lower + (2 * num * (upper - lower) + den) \div (2 * den)

\* A plausible slip: a missing cell is painted opaque black.
getColorForDbz_opaque(dbz) ==
    IF dbz.kind = "nan" \/ dbz.half < 2 * (-900)
        THEN <<0, 0, 0, 255>>
        ELSE LET i == scaleIndex(dbz.half, 1)
                 lower == COLOR_SCALE[IF i = 0 THEN 1 ELSE i]
                 upper == COLOR_SCALE[IF i = 0 THEN Len(COLOR_SCALE) ELSE i + 1]
                 range == upper.dbz - lower.dbz
             IN  IF dbz.half < 2 * COLOR_SCALE[1].dbz
                     THEN COLOR_SCALE[1].color
                 ELSE IF dbz.half >= 2 * COLOR_SCALE[Len(COLOR_SCALE)].dbz
                     THEN COLOR_SCALE[Len(COLOR_SCALE)].color
                 ELSE [c \in 1..4 |->
                        IF range = 0 THEN lower.color[c]
                        ELSE roundChannel(lower.color[c], upper.color[c],
                                          dbz.half - 2 * lower.dbz, 2 * range)]

getColorForDbz(dbz) ==
    IF dbz.kind = "nan" \/ dbz.half < 2 * (-900)
        THEN <<0, 0, 0, 0>>
        ELSE LET i == scaleIndex(dbz.half, 1)
                 lower == COLOR_SCALE[IF i = 0 THEN 1 ELSE i]
                 upper == COLOR_SCALE[IF i = 0 THEN Len(COLOR_SCALE) ELSE i + 1]
                 range == upper.dbz - lower.dbz
             IN  IF dbz.half < 2 * COLOR_SCALE[1].dbz
                     THEN COLOR_SCALE[1].color
                 ELSE IF dbz.half >= 2 * COLOR_SCALE[Len(COLOR_SCALE)].dbz
                     THEN COLOR_SCALE[Len(COLOR_SCALE)].color
                 ELSE [c \in 1..4 |->
                        IF range = 0 THEN lower.color[c]
                        ELSE roundChannel(lower.color[c], upper.color[c],
                                          dbz.half - 2 * lower.dbz, 2 * range)]

\* A plausible slip: an index past the end is clamped to the last cell.
orMissing_clamped(values, srcIdx) ==
    IF Len(values) = 0 THEN Num(-1998)
    ELSE LET v == numberOf(values[IF srcIdx >= Len(values) THEN Len(values)
                                  ELSE srcIdx + 1])
         IN  IF v.kind = "nan" \/ (v.kind = "num" /\ v.half = 0)
                 THEN Num(-1998)
                 ELSE v

\* values[srcIdx] || -999: undefined, NaN and 0 are falsy.
orMissing(values, srcIdx) ==
    IF srcIdx < 0 \/ srcIdx >= Len(values) THEN Num(-1998)
    ELSE LET v == numberOf(values[srcIdx + 1])
         IN  IF v.kind = "nan" \/ (v.kind = "num" /\ v.half = 0)
                 THEN Num(-1998)
                 ELSE v

\* A store into a Uint8Array.
toUint8(x) == x % 256

\* scanningMode & mask: an absent scanning mode (undefined) converts to 0.
modeBits(scanningMode, mask) ==
    IF scanningMode = Undefined THEN 0 ELSE And32(scanningMode, mask)

\* A plausible slip: the two flags are read from each other's bit.
srcIdxOf_bitsSwapped(width, height, scanningMode, i, j) ==
    LET scanWestToEast == modeBits(scanningMode, 64) = 0
        scanNorthToSouth == modeBits(scanningMode, 128) = 0
        srcY == IF scanNorthToSouth THEN j ELSE height - 1 - j
        srcX == IF scanWestToEast THEN i ELSE width - 1 - i
    IN  srcY * width + srcX

\* A plausible slip: the south-to-north flag is ignored.
srcIdxOf_noFlipY(width, height, scanningMode, i, j) ==
    LET scanWestToEast == modeBits(scanningMode, 128) = 0
        srcX == IF scanWestToEast THEN i ELSE width - 1 - i
    IN  j * width + srcX

\* A plausible slip: the west-to-east flag is read with the mask 0x90.
srcIdxOf_wideMask(width, height, scanningMode, i, j) ==
    LET scanWestToEast == modeBits(scanningMode, 144) = 0
        scanNorthToSouth == modeBits(scanningMode, 64) = 0
        srcY == IF scanNorthToSouth THEN j ELSE height - 1 - j
        srcX == IF scanWestToEast THEN i ELSE width - 1 - i
    IN  srcY * width + srcX

\* The index of the field cell painted at column i of row j.
srcIdxOf(width, height, scanningMode, i, j) ==
    LET scanWestToEast == modeBits(scanningMode, 128) = 0
        scanNorthToSouth == modeBits(scanningMode, 64) = 0
        srcY == IF scanNorthToSouth THEN j ELSE height - 1 - j
        srcX == IF scanWestToEast THEN i ELSE width - 1 - i
    IN  srcY * width + srcX

\* const { values, width, height, scanningMode } = radarData: a property the
\* object lacks is undefined.
scanningModeOf(radarData) ==
    IF "scanningMode" \in DOMAIN radarData THEN radarData.scanningMode ELSE Undefined

\* The pixel array of renderRadarPng, one <<r, g, b, a>> per pixel: the pixel
\* at one-based place p is the four bytes from dstIdx = (p - 1) * 4.
renderRadarPng(radarData) ==
    LET width == radarData.width
        height == radarData.height
    IN  [p \in 1..(width * height) |->
            LET j == (p - 1) \div width
                i == (p - 1) % width
                srcIdx == srcIdxOf(width, height, scanningModeOf(radarData), i, j)
                color == getColorForDbz(orMissing(radarData.values, srcIdx))
            IN  [c \in 1..4 |-> toUint8(color[c])]]

(***************************************************************************)
(* The run-length unpacker and the rendering of its field                  *)
(***************************************************************************)

\* Value and count bytes: 0 (missing, or an empty run), 0x40 (-1 dBZ),
\* 0x80 (31 dBZ), and the counts 1 and 2.
RunBytes == {0, 1, 2, 64, 128}

\* The longest data buffer, in bytes.
RunBufLen == 4

\* The most cells of a field.
MaxRunPoints == 4

InitRunLength ==
    /\ buffer \in UNION {[1..n -> RunBytes] : n \in 0..RunBufLen}
    /\ input \in [numPoints : 1..MaxRunPoints]
    /\ op = "none"
    /\ result = Undefined
    /\ ServerIdle

UnpackRunLengthCall ==
    /\ op = "none"
    /\ op' = "unpackRunLength"
    /\ result' = unpackRunLength(buffer, [templateNum |-> 200], input.numPoints)
    /\ UNCHANGED <<buffer, input, radarCache, now, upstream, requests>>

\* The field goes to the renderer as a grid of numPoints cells.
RenderRunLengthCall ==
    \E width \in 1..input.numPoints, scanningMode \in {0, 192} :
        /\ op = "unpackRunLength"
        /\ input.numPoints % width = 0
        /\ op' = "renderRadarPng"
        /\ result' = [values |-> result,
                      pixels |-> renderRadarPng(
                          [values |-> result, width |-> width,
                           height |-> input.numPoints \div width,
                           scanningMode |-> scanningMode])]
        /\ UNCHANGED <<buffer, input, radarCache, now, upstream, requests>>

NextRunLength == UnpackRunLengthCall \/ RenderRunLengthCall

SpecRunLength == InitRunLength /\ [][NextRunLength]_vars

\* The (value, count) pairs of the buffer, in order; an odd last byte is no
\* pair.
Pairs == [p \in 1..(Len(buffer) \div 2) |->
            [value |-> buffer[2 * p - 1], count |-> buffer[2 * p]]]

\* The number of cells the pairs before pair p cover.
RECURSIVE RunStart(_)
RunStart(p) == IF p = 1 THEN 0 ELSE RunStart(p - 1) + Pairs[p - 1].count

\* The pairs whose cumulative run covers cell k (zero-based): at most one.
Covering(k) ==
    {p \in 1..Len(Pairs) : RunStart(p) <= k /\ k < RunStart(p) + Pairs[p].count}

\* -999 for the value byte 0, value * 0.5 - 33 otherwise.
RunDbz(value) == IF value = 0 THEN Num(2 * (-999)) ELSE Num(value - 2 * 33)

\* C11: the run-length unpacker consumes the buffer as (value, count) pairs in
\* order; cell k holds the value of the pair whose cumulative run covers k
\* (-999 for the value byte 0, value * 0.5 - 33 otherwise), and a cell no run
\* covers, because the buffer is exhausted first, holds -999.
C11_RunLengthCells ==
    op = "unpackRunLength" =>
        /\ Len(result) = input.numPoints
        /\ \A k \in 0..(input.numPoints - 1) :
            /\ Cardinality(Covering(k)) <= 1
            /\ \A p \in Covering(k) :
                    numberOf(result[k + 1]) = RunDbz(Pairs[p].value)
            /\ Covering(k) = {} => numberOf(result[k + 1]) = Num(2 * (-999))

\* C11 witness: two runs with different values have been decoded into a
\* field that both reach, the second cut short by the end of the field.
C11_Witness ==
    /\ op = "unpackRunLength"
    /\ buffer = <<64, 1, 128, 2>>
    /\ input.numPoints = 2
    /\ numberOf(result[1]) = Num(-2)
    /\ numberOf(result[2]) = Num(62)

\* The field as numbers.
FieldNumbers(values) == [k \in 1..Len(values) |-> numberOf(values[k])]

Transparent == <<0, 0, 0, 0>>

\* The loop state with which unpackRunLength leaves its while loop.
LoopEnd == runLoop(buffer, input.numPoints, 0, 0)

\* The pairs the loop has consumed.
Consumed == LoopEnd.pos \div 2

\* C29: the run-length unpacker never writes at an index >= num_points and
\* always returns a field of exactly num_points cells: every cell not covered
\* by a run (buffer exhausted early, zero counts, or a trailing unpaired byte,
\* which is ignored) keeps the value -999, and pairs after the field is full
\* are not consumed.
C29_RunLengthBounds ==
    op = "unpackRunLength" =>
        /\ Len(result) = input.numPoints
        /\ LoopEnd.i <= input.numPoints
        /\ \A k \in LoopEnd.i..(input.numPoints - 1) : result[k + 1] = Missing
        /\ LoopEnd.pos = 2 * Consumed
        /\ Consumed <= Len(Pairs)
        /\ Consumed > 0 => RunStart(Consumed) < input.numPoints
        /\ Consumed < Len(Pairs) => RunStart(Consumed + 1) >= input.numPoints
        /\ LoopEnd.i = Min(RunStart(Consumed + 1), input.numPoints)
        /\ result = unpackRunLength(SubSeq(buffer, 1, LoopEnd.pos),
                                    [templateNum |-> 200], input.numPoints)

\* C29 witness: the first pair has filled a field of two cells and the pair
\* after it has not been consumed.
C29_Witness ==
    /\ op = "unpackRunLength"
    /\ buffer = <<64, 2, 128, 1>>
    /\ input.numPoints = 2
    /\ LoopEnd = [pos |-> 2, i |-> 2]
    /\ FieldNumbers(result) = <<Num(-2), Num(-2)>>

\* A zero count and a trailing unpaired byte leave their cells at -999.
UncoveredCellsMissing ==
    /\ (op = "unpackRunLength" /\ buffer = <<64, 0, 128, 1>> /\ input.numPoints = 2) =>
            FieldNumbers(result) = <<Num(62), Num(2 * (-999))>>
    /\ (op = "unpackRunLength" /\ buffer = <<64, 1, 128>> /\ input.numPoints = 2) =>
            FieldNumbers(result) = <<Num(-2), Num(2 * (-999))>>

\* C12 as stated (scenario E2): the data bytes 00 02 80 02 with num_points = 4
\* decode to the field [-999, -999, -1, -1], and all four rendered pixels are
\* (0, 0, 0, 0).
C12_AsStated ==
    (buffer = <<0, 2, 128, 2>> /\ input.numPoints = 4) =>
        /\ op = "unpackRunLength" =>
                FieldNumbers(result) = <<Num(-1998), Num(-1998), Num(-2), Num(-2)>>
        /\ op = "renderRadarPng" =>
                \A p \in 1..4 : result.pixels[p] = Transparent

\* C12, amended: the data bytes 00 02 40 02 with num_points = 4 decode to the
\* field [-999, -999, -1, -1] and all four rendered pixels are (0, 0, 0, 0);
\* the bytes 00 02 80 02 decode to [-999, -999, 31, 31], whose last two cells
\* are painted (51, 166, 0, 255).
C12_ScenarioE2 ==
    /\ (buffer = <<0, 2, 64, 2>> /\ input.numPoints = 4) =>
        /\ op = "unpackRunLength" =>
                FieldNumbers(result) = <<Num(-1998), Num(-1998), Num(-2), Num(-2)>>
        /\ op = "renderRadarPng" =>
                \A p \in 1..4 : result.pixels[p] = Transparent
    /\ (buffer = <<0, 2, 128, 2>> /\ input.numPoints = 4) =>
        /\ op = "unpackRunLength" =>
                FieldNumbers(result) = <<Num(-1998), Num(-1998), Num(62), Num(62)>>
        /\ op = "renderRadarPng" =>
                /\ Cardinality({p \in 1..4 : result.pixels[p] = Transparent}) = 2
                /\ Cardinality({p \in 1..4 : result.pixels[p] = <<51, 166, 0, 255>>}) = 2

\* C12 witness: the field of 00 02 40 02 has been rendered, every pixel
\* transparent.
C12_Witness ==
    /\ op = "renderRadarPng"
    /\ buffer = <<0, 2, 64, 2>>
    /\ input.numPoints = 4
    /\ FieldNumbers(result.values) = <<Num(-1998), Num(-1998), Num(-2), Num(-2)>>
    /\ \A p \in 1..4 : result.pixels[p] = Transparent

(***************************************************************************)
(* The PNG unpacker                                                        *)
(***************************************************************************)

\* Pixel bytes: 0 (missing), 20, 100 and 200.
PixelBytes == {0, 20, 100, 200}

\* The most raw pixel bytes of an image.
PngDataLen == 3

\* The most cells of a field.
MaxPngPoints == 2

\* The float32 bytes of -100.0 and of a NaN.
FloatMinus100 == <<194, 200, 0, 0>>
FloatNaN == <<127, 192, 0, 0>>

InitPng ==
    /\ \E channels \in 1..2 :
       \E data \in UNION {[1..n -> PixelBytes] : n \in 0..PngDataLen} :
            buffer = PngSignature \o <<channels>> \o data
    /\ input \in [referenceValue : {FloatZero, FloatMinus100, FloatNaN},
                  binaryScaleFactor : {0, 1},
                  decimalScaleFactor : {0, -1},
                  bitsPerValue : {8, 16},
                  numPoints : 1..MaxPngPoints]
    /\ op = "none"
    /\ result = Undefined
    /\ ServerIdle

UnpackPngCall ==
    /\ op = "none"
    /\ op' = "unpackPng"
    /\ result' = unpackPng(buffer, input, input.numPoints)
    /\ UNCHANGED <<buffer, input, radarCache, now, upstream, requests>>

NextPng == UnpackPngCall

SpecPng == InitPng /\ [][NextPng]_vars

\* The decoded image of the buffer: its channel count and raw bytes.
PngChannels == buffer[9]
PngData == SubSeq(buffer, 10, Len(buffer))

\* The packed integer X of pixel i (zero-based).
PackedOf(i) ==
    IF input.bitsPerValue <= 8 \/ PngChannels < 2
        THEN PngData[i * PngChannels + 1]
        ELSE 256 * PngData[i * PngChannels + 1]
                + (IF i * PngChannels + 2 <= Len(PngData)
                       THEN PngData[i * PngChannels + 2] ELSE 0)

\* Y = (R + X * 2^E) * 10^(-D), in halves, for the reference values drawn.
YOf(X) ==
    IF input.referenceValue = FloatNaN THEN NaN
    ELSE Num((2 * (IF input.referenceValue = FloatMinus100 THEN -100 ELSE 0)
                + 2 * X * (IF input.binaryScaleFactor = 1 THEN 2 ELSE 1))
             * (IF input.decimalScaleFactor = -1 THEN 10 ELSE 1))

\* C13: in the PNG unpacker, for every decoded pixel with packed integer X and
\* Y = (R + X * 2^E) * 10^(-D), the cell is -999 when X = 0 or Y < -30 and Y
\* otherwise; with at most 8 bits per value X is the first channel of the
\* pixel, so the 2 x 1 grayscale image [100, 200] with R = 0, E = 0, D = 0
\* gives the field [100, 200].
C13_PngCells ==
    op = "unpackPng" =>
        \A i \in 0..(input.numPoints - 1) :
            i * PngChannels < Len(PngData) =>
                LET X == PackedOf(i)
                    Y == YOf(X)
                IN  numberOf(result[i + 1]) =
                        (IF X = 0 \/ (Y.kind = "num" /\ Y.half < 2 * (-30))
                             THEN Num(2 * (-999))
                             ELSE Y)

\* C13 witness (scenario E6): the 2 x 1 grayscale image [100, 200] with R = 0,
\* E = 0, D = 0 and 8 bits per value has been decoded to [100, 200].
C13_Witness ==
    /\ op = "unpackPng"
    /\ buffer = PngSignature \o <<1, 100, 200>>
    /\ input = [referenceValue |-> FloatZero, binaryScaleFactor |-> 0,
                decimalScaleFactor |-> 0, bitsPerValue |-> 8, numPoints |-> 2]
    /\ FieldNumbers(result) = <<Num(200), Num(400)>>

\* Pixels below -30 and pixels of packed value 0 have both been decoded.
PngMissingBothWays ==
    /\ op = "unpackPng"
    /\ input.referenceValue = FloatMinus100
    /\ input.bitsPerValue = 8
    /\ input.numPoints = 2
    /\ buffer = PngSignature \o <<1, 20, 200>>
    /\ numberOf(result[1]) = Num(-1998)

(***************************************************************************)
(* The colour map                                                          *)
(***************************************************************************)

\* The dBZ values drawn, in halves: every multiple of 0.5 from -35 to 80,
\* the values around the missing threshold -900, the sentinel -999.
DbzHalves == (-70..160) \cup {-1798, -1800, -1801, -1998}

InitColor ==
    /\ input \in [dbz : {Num(h) : h \in DbzHalves} \cup {NaN}]
    /\ buffer = <<>>
    /\ op = "none"
    /\ result = Undefined
    /\ ServerIdle

GetColorForDbzCall ==
    /\ op = "none"
    /\ op' = "getColorForDbz"
    /\ result' = getColorForDbz(input.dbz)
    /\ UNCHANGED <<buffer, input, radarCache, now, upstream, requests>>

NextColor == GetColorForDbzCall

SpecColor == InitColor /\ [][NextColor]_vars

Abs(x) == IF x < 0 THEN -x ELSE x

\* n is an integer nearest to num / den (den > 0).
Nearest(n, num, den) == 2 * Abs(n * den - num) <= den

\* The indices i with stops[i].dbz <= h / 2 < stops[i + 1].dbz.
Between(h) ==
    {i \in 1..(Len(COLOR_SCALE) - 1) :
        2 * COLOR_SCALE[i].dbz <= h /\ h < 2 * COLOR_SCALE[i + 1].dbz}

\* The colour is the linear interpolation between stops i and i + 1 at h / 2,
\* each channel rounded to a nearest integer.
Interpolated(color, h, i) ==
    LET lower == COLOR_SCALE[i]
        upper == COLOR_SCALE[i + 1]
        den == 2 * (upper.dbz - lower.dbz)
    IN  \A c \in 1..4 :
            Nearest(color[c],
                    lower.color[c] * den
                        + (h - 2 * lower.dbz) * (upper.color[c] - lower.color[c]),
                    den)

C21_BelowTenTransparent ==
    (op = "getColorForDbz" /\ input.dbz.kind = "num" /\ input.dbz.half < 2 * 10) =>
        result[4] = 0

\* What does hold: alpha is 0 for every value of 0 dBZ or less, and is
\* positive for every value above 0 dBZ.
TransparentUpToZero ==
    (op = "getColorForDbz" /\ input.dbz.kind = "num") =>
        (result[4] = 0 <=> input.dbz.half <= 0)

(***************************************************************************)
(* The renderer on fields laid out in scan order                           *)
(***************************************************************************)

\* The widest and the tallest grid.
MaxWidth == 2
MaxHeight == 2

\* Scanning modes: the four combinations of the bits 0x80 and 0x40, and two
\* with other bits set as well.
ScanningModes == {0, 64, 128, 192, 16, 208}

\* Cells the renderer must leave transparent: the sentinel -999, a NaN, and
\* -1000.
MissingCells ==
    {Missing,
     scaleValue(FloatNaN, 1, 0, 0),
     scaleValue(FloatMinus100, 0, 0, -1)}

\* A cell with a value of its own: 7 + 5k dBZ for the k-th cell.
labelCell(k) == runValue(80 + 10 * k)

\* Bit b (a power of two) of the scanning mode is set.
BitSet(scanningMode, b) == (scanningMode \div b) % 2 = 1

\* The field, given north-up and west-left, laid out in the order the
\* scanning mode declares: rows from the south when 0x40 is set, cells from
\* the east when 0x80 is set.
scanOrder(field, width, height, scanningMode) ==
    [k \in 1..(width * height) |->
        LET sy == (k - 1) \div width
            sx == (k - 1) % width
            j == IF BitSet(scanningMode, 64) THEN height - 1 - sy ELSE sy
            i == IF BitSet(scanningMode, 128) THEN width - 1 - sx ELSE sx
        IN  field[j * width + i + 1]]

\* buffer holds the field north-up and west-left; input is the radarData
\* the renderer gets.
InitRender ==
    \E width \in 1..MaxWidth, height \in 1..MaxHeight,
       scanningMode \in ScanningModes, missing \in MissingCells :
    \E gaps \in SUBSET (1..(width * height)) :
        /\ buffer = [k \in 1..(width * height) |->
                        IF k \in gaps THEN missing ELSE labelCell(k)]
        /\ input = [values |-> scanOrder(buffer, width, height, scanningMode),
                    width |-> width, height |-> height,
                    scanningMode |-> scanningMode]
        /\ op = "none"
        /\ result = Undefined
        /\ ServerIdle

RenderRadarPngCall ==
    /\ op = "none"
    /\ op' = "renderRadarPng"
    /\ result' = renderRadarPng(input)
    /\ UNCHANGED <<buffer, input, radarCache, now, upstream, requests>>

NextRender == RenderRadarPngCall

SpecRender == InitRender /\ [][NextRender]_vars

\* The decoded value of a cell is below -900 or is NaN.
IsMissing(cell) ==
    LET v == numberOf(cell)
    IN  v.kind = "nan" \/ (v.kind = "num" /\ v.half < 2 * (-900))

\* The index (zero-based) of the field cell shown at column i of row j:
\* src_x = i when bit 0x80 is clear and width-1-i when set, src_y = j when bit
\* 0x40 is clear and height-1-j when set.
SrcOf(i, j) ==
    LET src_x == IF BitSet(input.scanningMode, 128) THEN input.width - 1 - i ELSE i
        src_y == IF BitSet(input.scanningMode, 64) THEN input.height - 1 - j ELSE j
    IN  src_y * input.width + src_x

Columns == 0..(input.width - 1)
Rows == 0..(input.height - 1)

\* The colour of a cell.
ColourOf(cell) ==
    IF IsMissing(cell) THEN Transparent
    ELSE IF numberOf(cell) = Num(0) THEN Transparent
    ELSE getColorForDbz(numberOf(cell))

\* C15: every field cell whose decoded value is below -900 or is NaN is
\* written to the output image as the pixel (0, 0, 0, 0), for every scanning
\* mode; no missing cell receives a non-zero colour or alpha channel.
C15_MissingTransparent ==
    op = "renderRadarPng" =>
        /\ Len(result) = input.width * input.height
        /\ \A i \in Columns, j \in Rows :
                IsMissing(input.values[SrcOf(i, j) + 1]) =>
                    result[j * input.width + i + 1] = Transparent
        /\ \A k \in 1..Len(input.values) :
                IsMissing(input.values[k]) =>
                    \E i \in Columns, j \in Rows :
                        /\ SrcOf(i, j) + 1 = k
                        /\ result[j * input.width + i + 1] = Transparent

\* C15 witness: a field with a missing cell beside a cell that is painted has
\* been rendered from a mode that flips it.
C15_Witness ==
    /\ op = "renderRadarPng"
    /\ input.width = 2
    /\ input.scanningMode = 128
    /\ IsMissing(input.values[1])
    /\ ~IsMissing(input.values[2])
    /\ result[2] = Transparent
    /\ result[1] # Transparent

\* C16: for every width, height and scanning mode, output pixel (i, j), stored
\* row-major at index j * width + i, is the colour of
\* Field[src_y * width + src_x] with src_x = i when bit 0x80 is clear and
\* width-1-i when set, and src_y = j when bit 0x40 is clear and height-1-j
\* when set; for scanning mode 0xC0 a 2 x 2 field [A, B, C, D] comes out in
\* the order [D, C, B, A].
C16_PixelSource ==
    op = "renderRadarPng" =>
        /\ \A i \in Columns, j \in Rows :
                result[j * input.width + i + 1]
                    = ColourOf(input.values[SrcOf(i, j) + 1])
        /\ (input.scanningMode = 192 /\ input.width = 2 /\ input.height = 2) =>
                result = <<ColourOf(input.values[4]), ColourOf(input.values[3]),
                           ColourOf(input.values[2]), ColourOf(input.values[1])>>

\* C16 witness (scenario E3): a 2 x 2 field of four different colours has
\* been rendered from scanning mode 0xC0, in the order [D, C, B, A].
C16_Witness ==
    /\ op = "renderRadarPng"
    /\ input.scanningMode = 192
    /\ input.width = 2 /\ input.height = 2
    /\ Cardinality({ColourOf(input.values[k]) : k \in 1..4}) = 4
    /\ result = <<ColourOf(input.values[4]), ColourOf(input.values[3]),
                  ColourOf(input.values[2]), ColourOf(input.values[1])>>

\* C17: for every scanning mode in {0x00, 0x40, 0x80, 0xC0} and every field,
\* the reorientation is a bijection on cell indices and its own inverse:
\* a north-up, west-left field laid out in the scan order the mode declares
\* and reoriented with the same mode comes back cell for cell.
C17_ReorientRoundTrip ==
    (op = "renderRadarPng" /\ input.scanningMode \in {0, 64, 128, 192}) =>
        /\ {SrcOf(i, j) : i \in Columns, j \in Rows}
                = 0..(input.width * input.height - 1)
        /\ \A i \in Columns, j \in Rows :
                SrcOf(SrcOf(i, j) % input.width, SrcOf(i, j) \div input.width)
                    = j * input.width + i
        /\ \A k \in 1..Len(buffer) : result[k] = ColourOf(buffer[k])

\* C17 witness: a 2 x 2 field of four different colours, laid out south to
\* north, has been rendered back in its north-up order.
C17_Witness ==
    /\ op = "renderRadarPng"
    /\ input.scanningMode = 64
    /\ input.width = 2 /\ input.height = 2
    /\ input.values # buffer
    /\ Cardinality({ColourOf(buffer[k]) : k \in 1..4}) = 4
    /\ \A k \in 1..4 : result[k] = ColourOf(buffer[k])

(***************************************************************************)
(* One field rendered under two scanning modes                             *)
(***************************************************************************)

\* The radarData of a field: scanningMode is absent when the grid was read
\* by parseGridTemplate30.
radarDataOf(values, width, height, scanningMode) ==
    IF scanningMode = Undefined
        THEN [values |-> values, width |-> width, height |-> height]
        ELSE [values |-> values, width |-> width, height |-> height,
              scanningMode |-> scanningMode]

\* buffer holds the field, every cell of a colour of its own.
InitModes ==
    \E width \in 1..MaxWidth, height \in 1..MaxHeight :
        /\ buffer = [k \in 1..(width * height) |-> labelCell(k)]
        /\ input \in [width : {width}, height : {height},
                      first : ScanningModes \cup {Undefined},
                      second : ScanningModes \cup {Undefined}]
        /\ op = "none"
        /\ result = Undefined
        /\ ServerIdle

\* renderRadarPng is called twice on the same field.
RenderTwiceCall ==
    /\ op = "none"
    /\ op' = "renderRadarPng twice"
    /\ result' = [first |-> renderRadarPng(radarDataOf(buffer, input.width,
                                                       input.height, input.first)),
                  second |-> renderRadarPng(radarDataOf(buffer, input.width,
                                                        input.height, input.second))]
    /\ UNCHANGED <<buffer, input, radarCache, now, upstream, requests>>

NextModes == RenderTwiceCall

SpecModes == InitModes /\ [][NextModes]_vars

\* Bits 0x80 and 0x40 of a scanning mode; an absent mode has neither.
OrientationBits(scanningMode) ==
    IF scanningMode = Undefined THEN <<FALSE, FALSE>>
    ELSE <<BitSet(scanningMode, 128), BitSet(scanningMode, 64)>>

\* C27: the rendered pixel array depends on scanning_mode only through bits
\* 0x80 and 0x40: two scanning modes that agree on those two bits give
\* identical output for the same field, and an absent scanning mode (as
\* returned for grid template 30) renders exactly like scanning mode 0x00.
C27_OnlyOrientationBits ==
    op = "renderRadarPng twice" =>
        /\ OrientationBits(input.first) = OrientationBits(input.second) =>
                result.first = result.second
        /\ (input.first = Undefined /\ input.second = 0) =>
                result.first = result.second

\* C27 witness: a 2 x 2 field has been rendered under the modes 0xC0 and
\* 0xD0, which differ in bit 0x10 only, with the same flipped output.
C27_Witness ==
    /\ op = "renderRadarPng twice"
    /\ input.width = 2 /\ input.height = 2
    /\ input.first = 192 /\ input.second = 208
    /\ result.first = result.second
    /\ result.first # renderRadarPng(radarDataOf(buffer, 2, 2, 0))

\* The absent mode has been rendered like mode 0x00, and unlike mode 0x80.
AbsentModeRendered ==
    op = "renderRadarPng twice" =>
        /\ (input.first = Undefined /\ input.second = 0) =>
                result.first = result.second
        /\ (input.first = Undefined /\ input.second = 128 /\ input.width = 2) =>
                result.first # result.second

(***************************************************************************)
(* The renderer on fields shorter than the grid                            *)
(***************************************************************************)

\* Cells that read as falsy: 0 dBZ from the run-length and from the simple
\* unpacker, and a NaN.
FalsyCells == {runValue(66), Zero, scaleValue(FloatNaN, 1, 0, 0)}

\* The field has the first `length` cells of the grid, some of them falsy.
InitShort ==
    \E width \in 1..MaxWidth, height \in 1..MaxHeight,
       scanningMode \in {0, 192}, falsy \in FalsyCells :
    \E length \in 0..(width * height) :
    \E gaps \in SUBSET (1..length) :
        /\ input = [values |-> [k \in 1..length |->
                                    IF k \in gaps THEN falsy ELSE labelCell(k)],
                    width |-> width, height |-> height,
                    scanningMode |-> scanningMode]
        /\ buffer = <<>>
        /\ op = "none"
        /\ result = Undefined
        /\ ServerIdle

RenderShortCall ==
    /\ op = "none"
    /\ op' = "renderRadarPng"
    /\ result' = renderRadarPng(input)
    /\ UNCHANGED <<buffer, input, radarCache, now, upstream, requests>>

NextShort == RenderShortCall

SpecShort == InitShort /\ [][NextShort]_vars

\* The source value is 0 or NaN.
IsFalsy(cell) ==
    LET v == numberOf(cell)
    IN  v.kind = "nan" \/ (v.kind = "num" /\ v.half = 0)

\* C28: renderRadarPng always writes exactly width*height pixels and never
\* fails on a short field: every output pixel whose source index is at or
\* beyond the end of the field, or whose source value is 0 or NaN, is treated
\* as -999 and written as (0,0,0,0).
C28_ShortFieldTransparent ==
    op = "renderRadarPng" =>
        /\ Len(result) = input.width * input.height
        /\ \A i \in Columns, j \in Rows :
            LET pixel == result[j * input.width + i + 1]
            IN  /\ Len(pixel) = 4
                /\ IF SrcOf(i, j) >= Len(input.values)
                       THEN /\ orMissing(input.values, SrcOf(i, j)) = Num(2 * (-999))
                            /\ pixel = Transparent
                   ELSE IF IsFalsy(input.values[SrcOf(i, j) + 1])
                       THEN /\ orMissing(input.values, SrcOf(i, j)) = Num(2 * (-999))
                            /\ pixel = Transparent
                   ELSE pixel = getColorForDbz(numberOf(input.values[SrcOf(i, j) + 1]))

\* C28 witness: a 2 x 2 grid has been rendered from a field of two cells, the
\* second of them 0 dBZ: one pixel is painted, three are transparent.
C28_Witness ==
    /\ op = "renderRadarPng"
    /\ input.width = 2 /\ input.height = 2
    /\ input.scanningMode = 0
    /\ Len(input.values) = 2
    /\ numberOf(input.values[2]) = Num(0)
    /\ result[1] # Transparent
    /\ \A p \in 2..4 : result[p] = Transparent

(***************************************************************************)
(* parseGrib2 on messages whose counts and lengths disagree                *)
(***************************************************************************)

\* Section 3 with grid template 0: numPoints cells declared for an nx x ny
\* grid.
encodeGrid(numPoints, nx, ny) ==
    LET body == encodeGridTemplate0(nx, ny, 0, 0, 40000000, 260000000,
                                    39000000, 261000000, 0)
    IN  U32(14 + Len(body)) \o <<3, 0>> \o U32(numPoints) \o <<0, 0>> \o U16(0) \o body

\* Section 5 declaring numDataPoints values: R = 0.0, E = 1, D = -1, 8 bits.
encodePacking(numDataPoints, templateNum) ==
    U32(23) \o <<5>> \o U32(numDataPoints) \o U16(templateNum) \o FloatZero
            \o S16(1) \o S16(-1) \o <<8, 0, 0, 0>>

\* A message of sections 0, 1, 3, 5, 7 and the end section whose section 0
\* declares lengthError bytes more than the message has, with the last `cut`
\* bytes missing.
encodeDeclared(m) ==
    LET body == encodeSection1
                \o encodeGrid(m.numPoints, m.nx, m.ny)
                \o encodePacking(m.numDataPoints, m.packing)
                \o encodeSection7(dataFor(m.packing))
                \o Sevens
        whole == encodeSection0(GRIB, 2, 16 + Len(body) + m.lengthError) \o body
    IN  SubSeq(whole, 1, Len(whole) - m.cut)

\* The most cells a message declares.
MaxDeclared == 3

\* Bytes cut off the end: none, or the end section and one or two bytes of
\* section 7.
Cuts == {0, 5, 6}

InitDeclared ==
    /\ input \in [numPoints : 1..MaxDeclared, numDataPoints : 1..MaxDeclared,
                  nx : 1..2, ny : 1..2, packing : {0, 40, 41, 200},
                  lengthError : {-1, 0, 1}, cut : Cuts]
    /\ buffer = encodeDeclared(input)
    /\ op = "none"
    /\ result = Undefined
    /\ ServerIdle

ParseDeclaredCall ==
    /\ op = "none"
    /\ op' = "parseGrib2"
    /\ result' = parseGrib2(buffer)
    /\ UNCHANGED <<buffer, input, radarCache, now, upstream, requests>>

NextDeclared == ParseDeclaredCall

SpecDeclared == InitDeclared /\ [][NextDeclared]_vars

\* C18: every result parseGrib2 returns satisfies the data-model invariants:
\* the grid's num_points equals width * height, the num_data_points of
\* section 5 equals the grid's num_points, and the field has num_points cells;
\* a message violating any of these is not accepted.
C18_CountsAgree ==
    (op = "parseGrib2" /\ input.cut = 0 /\ input.lengthError = 0
                       /\ result.status = "ok") =>
        /\ input.numPoints = result.grid.width * result.grid.height
        /\ input.numDataPoints = input.numPoints
        /\ Len(result.values) = input.numPoints

\* What does hold of the counts: the field has the num_points cells section 3
\* declares, and the grid has the width and height of the template.
FieldHasDeclaredLength ==
    (op = "parseGrib2" /\ result.status = "ok") =>
        /\ Len(result.values) = input.numPoints
        /\ result.grid.width = input.nx
        /\ result.grid.height = input.ny

\* C19: a message with a truncated section (its declared length runs past the
\* end of the buffer), or whose section-0 total length differs from 16 + the
\* section lengths + 4, is rejected with the invalid-format error and not
\* parsed into a field.
C19_LengthsChecked ==
    (op = "parseGrib2" /\ (input.cut > 0 \/ input.lengthError # 0)) =>
        /\ result.status = "error"
        /\ result.error.err = "InvalidMagic"

(***************************************************************************)
(* The servers                                                             *)
(*                                                                         *)
(* A product is known by its number: the upstream holds the products       *)
(* 1..upstream, an image or a metadata object is the number of the product *)
(* it was made from.  A handler runs without interruption from one await   *)
(* to the next.                                                            *)
(***************************************************************************)

\* The most requests.
MaxRequests == 2

\* The most products the upstream comes to hold.
MaxProducts == 2

\* The clock stops here.
MaxNow == 60001

\* const CACHE_DURATION = 60 * 1000
CACHE_DURATION == 60 * 1000

\* The steps of the clock, in milliseconds.
Delays == {30000, 59999, 60000}

Endpoints == {"latest", "metadata"}

\* parsedData.timestamp of a product.
timestampOf(product) == product

noResponse == [status |-> 0, body |-> Null]

newRequest ==
    [pc |-> "new", endpoint |-> "none", fetched |-> FALSE, from |-> 0,
     product |-> Null, response |-> noResponse]

InitServer ==
    /\ radarCache = emptyCache
    /\ now = 1
    /\ upstream = 1
    /\ requests = [r \in 1..MaxRequests |-> newRequest]
    /\ buffer = <<>>
    /\ input = <<>>
    /\ op = "none"
    /\ result = Undefined

pipelineVars == <<buffer, input, op, result>>

\* A plausible slip: an entry is still valid at exactly CACHE_DURATION.
isCacheValid_inclusive ==
    IF radarCache.fetchedAt = Null THEN FALSE
    ELSE now - radarCache.fetchedAt <= CACHE_DURATION

isCacheValid ==
    IF radarCache.fetchedAt = Null THEN FALSE
    ELSE now - radarCache.fetchedAt < CACHE_DURATION

\* What a handler sends once getRadarData has returned `data`.
respond(endpoint, data) ==
    IF endpoint = "latest"
        THEN IF data.image = Null
                 THEN [status |-> 503, body |-> Null]
                 ELSE [status |-> 200, body |-> data.image]
        ELSE IF data.metadata = Null
                 THEN [status |-> 503, body |-> Null]
                 ELSE [status |-> 200, body |-> data.metadata]

\* A plausible slip: the entry is updated field by field and the metadata
\* of the entry before is kept.
entryOf_keepsMetadata(product) ==
    [image |-> product, metadata |-> radarCache.metadata,
     timestamp |-> timestampOf(product), fetchedAt |-> now]

\* The cache entry made from a product when its rendering completes.
entryOf(product) ==
    [image |-> product, metadata |-> product,
     timestamp |-> timestampOf(product), fetchedAt |-> now]

\* A request arrives at the cached server and is answered from the cache.
ServeFromCache(r) ==
    \E endpoint \in Endpoints :
        /\ requests[r].pc = "new"
        /\ isCacheValid /\ radarCache.image # Null
        /\ requests' = [requests EXCEPT ![r] =
                [@ EXCEPT !.pc = "done", !.endpoint = endpoint,
                          !.response = respond(endpoint, radarCache)]]
        /\ UNCHANGED <<radarCache, now, upstream, pipelineVars>>

\* A request arrives at the cached server, finds no valid entry and calls
\* fetchLatestRadarData.
StartFetch(r) ==
    \E endpoint \in Endpoints :
        /\ requests[r].pc = "new"
        /\ ~(isCacheValid /\ radarCache.image # Null)
        /\ requests' = [requests EXCEPT ![r] =
                [@ EXCEPT !.pc = "fetching", !.endpoint = endpoint,
                          !.fetched = TRUE, !.from = upstream]]
        /\ UNCHANGED <<radarCache, now, upstream, pipelineVars>>

\* A request arrives at the server without a cache: it always fetches.
FreshStartFetch(r) ==
    \E endpoint \in Endpoints :
        /\ requests[r].pc = "new"
        /\ requests' = [requests EXCEPT ![r] =
                [@ EXCEPT !.pc = "fetching", !.endpoint = endpoint,
                          !.fetched = TRUE, !.from = upstream]]
        /\ UNCHANGED <<radarCache, now, upstream, pipelineVars>>

\* fetchLatestRadarData resolves with a product that was the latest at some
\* moment of the fetch; when the fetch began is of no use thereafter.
FetchDone(r) ==
    \E product \in requests[r].from..upstream :
        /\ requests[r].pc = "fetching"
        /\ requests' = [requests EXCEPT ![r] =
                [@ EXCEPT !.pc = "parsing", !.product = product, !.from = 0]]
        /\ UNCHANGED <<radarCache, now, upstream, pipelineVars>>

ParseDone(r) ==
    /\ requests[r].pc = "parsing"
    /\ requests' = [requests EXCEPT ![r] = [@ EXCEPT !.pc = "rendering"]]
    /\ UNCHANGED <<radarCache, now, upstream, pipelineVars>>

\* renderRadarPng resolves in the cached server: the entry is replaced and
\* the handler answers from the new entry.
RenderDone(r) ==
    /\ requests[r].pc = "rendering"
    /\ radarCache' = entryOf(requests[r].product)
    /\ requests' = [requests EXCEPT ![r] =
            [@ EXCEPT !.pc = "done",
                      !.response = respond(requests[r].endpoint,
                                           entryOf(requests[r].product))]]
    /\ UNCHANGED <<now, upstream, pipelineVars>>

\* renderRadarPng resolves in the server without a cache.
FreshRenderDone(r) ==
    /\ requests[r].pc = "rendering"
    /\ requests' = [requests EXCEPT ![r] =
            [@ EXCEPT !.pc = "done",
                      !.response = respond(requests[r].endpoint,
                                           entryOf(requests[r].product))]]
    /\ UNCHANGED <<radarCache, now, upstream, pipelineVars>>

\* A plausible slip: a failed refresh falls back on the entry in the cache.
Fails_servesStale(r, stage) ==
    /\ requests[r].pc = stage
    /\ requests' = [requests EXCEPT ![r] =
            [@ EXCEPT !.pc = "done",
                      !.response = respond(requests[r].endpoint, radarCache)]]
    /\ UNCHANGED <<radarCache, now, upstream, pipelineVars>>

\* fetch, parse or render throws: getRadarData rethrows and the handler
\* answers 500.
Fails(r, stage) ==
    /\ requests[r].pc = stage
    /\ requests' = [requests EXCEPT ![r] =
            [@ EXCEPT !.pc = "done", !.response = [status |-> 500, body |-> Null]]]
    /\ UNCHANGED <<radarCache, now, upstream, pipelineVars>>

FetchFails(r) == Fails(r, "fetching")
ParseFails(r) == Fails(r, "parsing")
RenderFails(r) == Fails(r, "rendering")

\* The upstream publishes its next product.
NewProduct ==
    /\ upstream < MaxProducts
    /\ upstream' = upstream + 1
    /\ UNCHANGED <<radarCache, now, requests, pipelineVars>>

\* Time passes.
Tick ==
    \E d \in Delays :
        /\ now + d <= MaxNow
        /\ now' = now + d
        /\ UNCHANGED <<radarCache, upstream, requests, pipelineVars>>

NextCached ==
    \/ \E r \in 1..MaxRequests :
        \/ ServeFromCache(r)
        \/ StartFetch(r)
        \/ FetchDone(r)
        \/ FetchFails(r)
        \/ ParseDone(r)
        \/ ParseFails(r)
        \/ RenderDone(r)
        \/ RenderFails(r)
    \/ NewProduct
    \/ Tick

SpecCached == InitServer /\ [][NextCached]_vars

NextFresh ==
    \/ \E r \in 1..MaxRequests :
        \/ FreshStartFetch(r)
        \/ FetchDone(r)
        \/ FetchFails(r)
        \/ ParseDone(r)
        \/ ParseFails(r)
        \/ FreshRenderDone(r)
        \/ RenderFails(r)
    \/ NewProduct
    \/ Tick

SpecFresh == InitServer /\ [][NextFresh]_vars

\* Every request that has arrived has started a fetch of its own, and every
\* answer with data carries the product that request fetched itself.
EveryRequestFetches ==
    \A r \in DOMAIN requests :
        /\ requests[r].pc # "new" => requests[r].fetched
        /\ requests[r].response.status = 200 =>
                /\ requests[r].fetched
                /\ requests[r].response.body = requests[r].product

\* C20: every request to /api/radar/latest or /api/radar/metadata fetches and
\* processes fresh upstream data: each request triggers its own upstream
\* fetch, parse and render, and no response is built from a product fetched
\* for an earlier request.
C20_FreshOnEachRequest == EveryRequestFetches

\* What does hold: the same of the server that keeps no cache.
FreshServerFetchesEachTime == EveryRequestFetches

(***************************************************************************)
(* The cache of the cached server                                          *)
(***************************************************************************)

Stages == {"fetching", "parsing", "rendering"}

\* The entry is empty, or all of it was made from one product.
CacheWhole ==
    \/ radarCache = emptyCache
    \/ \E product \in 1..MaxProducts :
        /\ radarCache.image = product
        /\ radarCache.metadata = product
        /\ radarCache.timestamp = timestampOf(product)
        /\ radarCache.fetchedAt # Null

\* The entry changes only in the step that completes the rendering of some
\* request, and then holds the product that request fetched and parsed.
ReplacedAfterRender ==
    [][radarCache' # radarCache =>
        \E r \in DOMAIN requests :
            /\ requests[r].pc = "rendering"
            /\ requests[r].product # Null
            /\ requests'[r].pc = "done"
            /\ requests'[r].response.status = 200
            /\ radarCache'.image = requests[r].product
            /\ radarCache'.fetchedAt = now]_vars

\* C23: in the cached server, across any interleaving of concurrent requests,
\* the cache entry is replaced only as a whole and only after fetch, parse and
\* render have all succeeded: in every reachable state image, metadata,
\* timestamp and fetchedAt are either all null or all derived from the same
\* single fetched product, never a mix of two products.
C23_CacheReplacedWhole == []CacheWhole /\ ReplacedAfterRender

\* C23 witness: two requests have refreshed the cache, one with product 1 and
\* one with product 2, and the entry holds product 2.
C23_Witness ==
    /\ radarCache.image = 2
    /\ \A r \in DOMAIN requests : requests[r].pc = "done" /\ requests[r].fetched
    /\ \E r \in DOMAIN requests : requests[r].response = [status |-> 200, body |-> 1]
    /\ \E r \in DOMAIN requests : requests[r].response = [status |-> 200, body |-> 2]

\* A request's refresh fails in this step: it leaves the stage of fetching or
\* parsing for "done" (success leads to the next stage), or it leaves the
\* stage of rendering without the entry being replaced by its product at
\* this moment.
RefreshFails(r) ==
    /\ requests[r].pc \in Stages
    /\ requests'[r].pc = "done"
    /\ \/ requests[r].pc # "rendering"
       \/ radarCache' # [image |-> requests[r].product, metadata |-> requests[r].product,
                         timestamp |-> timestampOf(requests[r].product),
                         fetchedAt |-> now]

\* C24: in the cached server, when a refresh fails at fetch, parse or render,
\* the cache entry is left exactly as it was, and the request that triggered
\* the refresh is answered with HTTP 500 rather than with the stale cached
\* image or metadata.
C24_FailedRefresh ==
    [][\A r \in DOMAIN requests :
            RefreshFails(r) =>
                /\ radarCache' = radarCache
                /\ requests'[r].response = [status |-> 500, body |-> Null]]_vars

\* C24 witness: a request whose refresh failed has been answered 500 while
\* the cache held the product of an earlier refresh.
C24_Witness ==
    /\ radarCache.image = 1
    /\ \E r \in DOMAIN requests :
        /\ requests[r].pc = "done"
        /\ requests[r].fetched
        /\ requests[r].product = 2
        /\ requests[r].response.status = 500

\* The condition of the claim, on the entry and the clock as they are.
Servable ==
    /\ radarCache.fetchedAt # Null
    /\ now - radarCache.fetchedAt < 60000
    /\ radarCache.image # Null

C26_TimestampMonotone ==
    [][radarCache'.timestamp >= radarCache.timestamp]_vars

\* What does hold: the time of storing never decreases, whatever the order
\* in which concurrent refreshes complete.
FetchedAtMonotone ==
    [][radarCache'.fetchedAt >= radarCache.fetchedAt]_vars

====
